---------------------------- MODULE Spec2Model ----------------------------
(***************************************************************************)
(* Model of the integrity-error pipeline of the chat backend:              *)
(*   app/exceptions/base.py                 domain errors, payload, status *)
(*   app/exceptions/integrity_classifier.py classification of violations   *)
(*   app/exceptions/mapper.py               column extraction, mapper and  *)
(*                                          the db_error_handler guard     *)
(*   app/repositories/base_repository.py    BaseRepository.create          *)
(*   app/validators/exception_validators.py unique pre-check               *)
(*                                                                         *)
(* Text.  A Python string is modelled as the sequence of its lexemes:      *)
(* words, punctuation marks and white space, each one token, so that the   *)
(* string is the concatenation of its tokens.  "x in s" is containment of  *)
(* a contiguous run of tokens, str.lower() maps every token to its lower   *)
(* case, and the regular expressions of mapper.py are matched token by     *)
(* token.  None of a string-valued attribute is NoneStr; None of a         *)
(* list-valued attribute is the empty sequence (the code only ever tests   *)
(* such lists for truthiness, and None and [] are both falsy).             *)
(***************************************************************************)
EXTENDS Integers, Sequences, FiniteSets, TLC

NoneStr == "<None>"
NoneList == << >>

\* ------------------------------------------------------------------ text

Min(S) == CHOOSE x \in S : \A y \in S : x <= y
Max(S) == CHOOSE x \in S : \A y \in S : x >= y

\* str.lower() on the vocabulary of the messages below
LowerTok(t) ==
    CASE t = "UNIQUE" -> "unique"
      [] t = "NOT" -> "not"
      [] t = "NULL" -> "null"
      [] t = "CHECK" -> "check"
      [] t = "FOREIGN" -> "foreign"
      [] t = "KEY" -> "key"
      [] t = "Key" -> "key"
      [] t = "DETAIL" -> "detail"
      [] t = "Duplicate" -> "duplicate"
      [] t = "None" -> "none"
      [] OTHER -> t

Lower(s) == [i \in 1..Len(s) |-> LowerTok(s[i])]

\* needle in hay
Contains(hay, needle) ==
    \E i \in 0..(Len(hay) - Len(needle)) :
        SubSeq(hay, i + 1, i + Len(needle)) = needle

\* the words of ws separated by single blanks
RECURSIVE Words(_)
Words(ws) ==
    IF Len(ws) = 0 THEN << >>
    ELSE IF Len(ws) = 1 THEN << ws[1] >>
    ELSE << ws[1], " " >> \o Words(Tail(ws))

\* sep.join(parts)
RECURSIVE Join(_, _)
Join(parts, sep) ==
    IF Len(parts) = 0 THEN << >>
    ELSE IF Len(parts) = 1 THEN parts[1]
    ELSE parts[1] \o sep \o Join(Tail(parts), sep)

IsSpace(t) == t \in {" ", "\n"}

\* s.strip(): white space removed at both ends
RECURSIVE Strip(_)
Strip(s) ==
    IF Len(s) = 0 THEN s
    ELSE IF IsSpace(s[1]) THEN Strip(Tail(s))
    ELSE IF IsSpace(s[Len(s)]) THEN Strip(SubSeq(s, 1, Len(s) - 1))
    ELSE s

\* s.strip('"')
RECURSIVE StripQuotes(_)
StripQuotes(s) ==
    IF Len(s) = 0 THEN s
    ELSE IF s[1] = "\"" THEN StripQuotes(Tail(s))
    ELSE IF s[Len(s)] = "\"" THEN StripQuotes(SubSeq(s, 1, Len(s) - 1))
    ELSE s

\* s.split(sep) for a one-token separator: always at least one piece
RECURSIVE Split(_, _)
Split(s, sep) ==
    LET hits == {i \in 1..Len(s) : s[i] = sep}
    IN  IF hits = {} THEN << s >>
        ELSE LET i == Min(hits)
             IN  << SubSeq(s, 1, i - 1) >> \o Split(SubSeq(s, i + 1, Len(s)), sep)

\* c.split('.')[-1]
AfterLastDot(c) ==
    LET parts == Split(c, ".") IN parts[Len(parts)]

\* the positions at which the literal lit starts in s, compared ignoring case
LiteralAt(s, lit) ==
    {i \in 1..(Len(s) - Len(lit) + 1) :
        Lower(SubSeq(s, i, i + Len(lit) - 1)) = Lower(lit)}

\* the longest run of tokens from position j on that holds no token stop:
\* the text a greedy [^stop]+ takes (empty when it cannot match)
RunNot(s, j, stop) ==
    LET ends == {k \in j..Len(s) : s[k] = stop}
        last == IF ends = {} THEN Len(s) ELSE Min(ends) - 1
    IN  SubSeq(s, j, last)


\* --------------------------------------------- app/exceptions/base.py

\* RepositoryError.__init__: an exception object.  cause is __cause__ and
\* context is __context__, each the type name of the exception it refers to.
RepositoryError(message, fields, constraint, error_code) ==
    [type |-> "RepositoryError",
     message |-> message,
     fields |-> IF fields # << >> THEN fields ELSE NoneList,
     constraint |-> constraint,
     error_code |-> error_code,
     cause |-> NoneStr,
     context |-> NoneStr]

NotFoundError(message, fields) ==
    [RepositoryError(message, fields, NoneStr, "not_found") EXCEPT !.type = "NotFoundError"]

DuplicateError(message, fields, constraint) ==
    [RepositoryError(message, fields, constraint, "duplicate") EXCEPT !.type = "DuplicateError"]

InvalidFieldError(message, fields) ==
    [RepositoryError(message, fields, NoneStr, "invalid_field") EXCEPT !.type = "InvalidFieldError"]

\* the classes of base.py: RepositoryError and its subclasses
RepositoryErrorTypes ==
    {"RepositoryError", "NotFoundError", "DuplicateError", "InvalidFieldError"}

\* truthiness of an optional string: None and "" are falsy
Truthy(x) == x # NoneStr /\ x # ""

ERROR_CODE_TO_STATUS(code) ==
    CASE code = "duplicate" -> 409
      [] code = "invalid_field" -> 422
      [] code = "not_found" -> 404
      [] code = "invalid_input" -> 422
      [] OTHER -> 0

\* RepositoryError.http_status
MutHttpStatusNoDefault(err) ==
    IF Truthy(err.error_code) THEN ERROR_CODE_TO_STATUS(err.error_code) ELSE 400

http_status(err) ==
    IF Truthy(err.error_code)
    THEN IF ERROR_CODE_TO_STATUS(err.error_code) # 0
         THEN ERROR_CODE_TO_STATUS(err.error_code)
         ELSE 400
    ELSE 400

\* RepositoryError.to_payload
MutPayloadWithConstraint(err) ==
    LET keys == {"detail"}
                \cup (IF Truthy(err.error_code) THEN {"code"} ELSE {})
                \cup (IF err.fields # << >> THEN {"fields"} ELSE {})
                \cup (IF Truthy(err.constraint) THEN {"constraint"} ELSE {})
    IN  [k \in keys |->
            CASE k = "detail" -> err.message
              [] k = "code" -> << err.error_code >>
              [] k = "fields" -> err.fields
              [] k = "constraint" -> << err.constraint >>]

\* RepositoryError.to_payload: the dict of the response body
to_payload(err) ==
    LET keys == {"detail"}
                \cup (IF Truthy(err.error_code) THEN {"code"} ELSE {})
                \cup (IF err.fields # << >> THEN {"fields"} ELSE {})
    IN  [k \in keys |->
            CASE k = "detail" -> err.message
              [] k = "code" -> << err.error_code >>
              [] k = "fields" -> err.fields]

\* ------------------------------ app/exceptions/integrity_classifier.py

\* An IntegrityError exc: whether exc.orig is set, orig.pgcode,
\* orig.diag.constraint_name and str(orig); text is str(exc).
IntegrityErrorOf(hasOrig, pgcode, constraint_name, msg) ==
    [hasOrig |-> hasOrig, pgcode |-> pgcode,
     constraint_name |-> constraint_name, msg |-> msg]

\* str(exc.orig): "None" when orig is None
StrOrig(exc) == IF exc.hasOrig THEN exc.msg ELSE << "None" >>

\* str(exc) of an IntegrityError without orig
StrExc(exc) == << "(", "builtins", ".", "NoneType", ")", " ", "None" >>

\* PGCODE_EXCEPTION_MAP.get(pgcode)
PGCODE_EXCEPTION_MAP(pgcode) ==
    CASE pgcode = "23505" -> "UniqueConstraintError"
      [] pgcode = "23502" -> "NotNullConstraintError"
      [] pgcode = "23503" -> "ForeignKeyConstraintError"
      [] pgcode = "23514" -> "CheckConstraintError"
      [] OTHER -> NoneStr

\* any(keyword in msg for keyword in keywords)
_match_any(msg, keywords) == \E kw \in keywords : Contains(msg, kw)

UniqueKeywords ==
    { Words(<< "unique", "constraint" >>), Words(<< "unique", "failed" >>),
      Words(<< "unique", "violation" >>), << "duplicate" >> }

NotNullKeywords ==
    { Words(<< "not", "null", "constraint" >>), Words(<< "not", "null" >>),
      Words(<< "null", "value", "in", "column" >>) }

ForeignKeyKeywords ==
    { Words(<< "foreign", "key", "constraint" >>), Words(<< "foreign", "key" >>),
      Words(<< "is", "not", "present", "in", "table" >>) }

CheckKeywords ==
    { Words(<< "check", "constraint" >>), Words(<< "check", "failed" >>) }

\* _classify_from_postgres_diag: cls is NoneStr when there is no pgcode
_classify_from_postgres_diag(exc) ==
    LET pgcode == IF exc.hasOrig THEN exc.pgcode ELSE NoneStr
        constraint_name == IF exc.hasOrig THEN exc.constraint_name ELSE NoneStr
        exception_class == PGCODE_EXCEPTION_MAP(pgcode)
    IN  IF ~Truthy(pgcode) THEN [cls |-> NoneStr, constraint |-> NoneStr]
        ELSE IF exception_class # NoneStr
             THEN [cls |-> exception_class, constraint |-> constraint_name]
             ELSE [cls |-> "UnknownIntegrityError", constraint |-> constraint_name]

\* _classify_from_generic_message
MutGenericMessageNoUnique(msg) ==
    LET normalized == Lower(msg)
    IN  IF _match_any(normalized, NotNullKeywords)
        THEN [cls |-> "NotNullConstraintError", constraint |-> NoneStr]
        ELSE IF _match_any(normalized, ForeignKeyKeywords)
        THEN [cls |-> "ForeignKeyConstraintError", constraint |-> NoneStr]
        ELSE IF _match_any(normalized, CheckKeywords)
        THEN [cls |-> "CheckConstraintError", constraint |-> NoneStr]
        ELSE [cls |-> "UnknownIntegrityError", constraint |-> NoneStr]

MutGenericMessageCheckFirst(msg) ==
    LET normalized == Lower(msg)
    IN  IF _match_any(normalized, CheckKeywords)
        THEN [cls |-> "CheckConstraintError", constraint |-> NoneStr]
        ELSE IF _match_any(normalized, UniqueKeywords)
        THEN [cls |-> "UniqueConstraintError", constraint |-> NoneStr]
        ELSE IF _match_any(normalized, NotNullKeywords)
        THEN [cls |-> "NotNullConstraintError", constraint |-> NoneStr]
        ELSE IF _match_any(normalized, ForeignKeyKeywords)
        THEN [cls |-> "ForeignKeyConstraintError", constraint |-> NoneStr]
        ELSE [cls |-> "UnknownIntegrityError", constraint |-> NoneStr]

_classify_from_generic_message(msg) ==
    LET normalized == Lower(msg)
    IN  IF _match_any(normalized, UniqueKeywords)
        THEN [cls |-> "UniqueConstraintError", constraint |-> NoneStr]
        ELSE IF _match_any(normalized, NotNullKeywords)
        THEN [cls |-> "NotNullConstraintError", constraint |-> NoneStr]
        ELSE IF _match_any(normalized, ForeignKeyKeywords)
        THEN [cls |-> "ForeignKeyConstraintError", constraint |-> NoneStr]
        ELSE IF _match_any(normalized, CheckKeywords)
        THEN [cls |-> "CheckConstraintError", constraint |-> NoneStr]
        ELSE [cls |-> "UnknownIntegrityError", constraint |-> NoneStr]

\* classify_integrity_error
MutClassifyTextFirst(exc) ==
    LET byText == _classify_from_generic_message(StrOrig(exc))
    IN  IF byText.cls # "UnknownIntegrityError" THEN byText
        ELSE _classify_from_postgres_diag(exc)

classify_integrity_error(exc) ==
    LET diag == _classify_from_postgres_diag(exc)
    IN  IF diag.cls # NoneStr THEN diag
        ELSE _classify_from_generic_message(StrOrig(exc))

\* ------------------------------------------- app/exceptions/mapper.py

\* _extract_columns_postgres
_extract_columns_postgres(msg) ==
    LET L1 == Words(<< "null", "value", "in", "column" >>) \o << " ", "\"" >>
        m1 == {i \in LiteralAt(msg, L1) :
                  LET j == i + Len(L1)
                      run == RunNot(msg, j, "\"")
                  IN  Len(run) >= 1 /\ j + Len(run) <= Len(msg)}
        L2 == << "key", " ", "(" >>
        m2 == {i \in LiteralAt(msg, L2) :
                  LET j == i + Len(L2)
                      run == RunNot(msg, j, ")")
                  IN  /\ Len(run) >= 1
                      /\ j + Len(run) + 1 <= Len(msg)
                      /\ msg[j + Len(run) + 1] = "="}
    IN  IF msg = << >> THEN NoneList
        ELSE IF m1 # {} THEN << RunNot(msg, Min(m1) + Len(L1), "\"") >>
        ELSE IF m2 # {}
        THEN LET parts == Split(RunNot(msg, Min(m2) + Len(L2), ")"), ",")
             IN  [k \in 1..Len(parts) |-> StripQuotes(Strip(parts[k]))]
        ELSE NoneList

\* s.lstrip(): what the \s* of the separator ,\s* takes
RECURSIVE LStrip(_)
LStrip(s) == IF Len(s) > 0 /\ IsSpace(s[1]) THEN LStrip(Tail(s)) ELSE s

\* [c.split('.')[-1].strip() for c in re.split(r',\s*', cols)]
SqliteColumns(cols) ==
    LET parts == Split(cols, ",")
    IN  [k \in 1..Len(parts) |->
            Strip(AfterLastDot(IF k = 1 THEN parts[k] ELSE LStrip(parts[k])))]

\* the text (?P<cols>.+)$ takes after the literal lit, << >> when no match:
\* .+ runs to the first line break, and $ wants that to be the end of msg
\* or its last character
SqliteTail(msg, lit) ==
    LET m == {i \in LiteralAt(msg, lit) :
                 LET j == i + Len(lit)
                     run == RunNot(msg, j, "\n")
                 IN  Len(run) >= 1 /\ j + Len(run) >= Len(msg)}
    IN  IF m = {} THEN << >> ELSE RunNot(msg, Min(m) + Len(lit), "\n")

\* _extract_columns_sqlite
_extract_columns_sqlite(msg) ==
    LET u == SqliteTail(msg, Words(<< "unique", "constraint", "failed" >>) \o << ":", " " >>)
        n == SqliteTail(msg, Words(<< "not", "null", "constraint", "failed" >>) \o << ":", " " >>)
    IN  IF u # << >> THEN SqliteColumns(u)
        ELSE IF n # << >> THEN SqliteColumns(n)
        ELSE NoneList

\* where the key of  for key '? (?P<key>[^']+)  starts when the literal
\* "for key " starts at i (0: no match); the pattern wants a blank after
\* the optional quote
MysqlKeyStart1(msg, i) ==
    LET j == i + 4
    IN  IF j + 2 <= Len(msg) /\ msg[j] = "'" /\ msg[j + 1] = " " /\ msg[j + 2] # "'"
        THEN j + 2
        ELSE IF j + 1 <= Len(msg) /\ msg[j] = " " /\ msg[j + 1] # "'"
        THEN j + 1
        ELSE 0

\* where the group of  Duplicate entry .* for key '?([^']+)  starts when
\* " for key " starts at p (0: no match)
MysqlKeyStart2(msg, p) ==
    LET q == p + 5
    IN  IF q + 1 <= Len(msg) /\ msg[q] = "'" /\ msg[q + 1] # "'" THEN q + 1
        ELSE IF q <= Len(msg) /\ msg[q] # "'" THEN q
        ELSE 0

\* _extract_columns_mysql
_extract_columns_mysql(msg) ==
    LET forKey == << "for", " ", "key", " " >>
        m1 == {i \in LiteralAt(msg, forKey) : MysqlKeyStart1(msg, i) # 0}
        dup == << "duplicate", " ", "entry", " " >>
        \* <<i, p>>: "Duplicate entry " at i, then .* up to " for key " at p
        m2 == {ip \in LiteralAt(msg, dup) \X LiteralAt(msg, << " " >> \o forKey) :
                  /\ ip[2] >= ip[1] + Len(dup)
                  /\ \A k \in (ip[1] + Len(dup))..(ip[2] - 1) : msg[k] # "\n"
                  /\ MysqlKeyStart2(msg, ip[2]) # 0}
    IN  IF m1 # {} THEN << RunNot(msg, MysqlKeyStart1(msg, Min(m1)), "'") >>
        ELSE IF m2 # {}
        THEN LET i == Min({ip[1] : ip \in m2})
                 p == Max({ip[2] : ip \in {x \in m2 : x[1] = i}})
             IN  << RunNot(msg, MysqlKeyStart2(msg, p), "'") >>
        ELSE NoneList

\* extract_columns_from_integrity
MutExtractSqliteFirst(exc) ==
    LET msg == IF exc.hasOrig THEN exc.msg ELSE StrExc(exc)
        pg == _extract_columns_postgres(msg)
        lite == _extract_columns_sqlite(msg)
        my == _extract_columns_mysql(msg)
    IN  IF lite # << >> THEN lite
        ELSE IF pg # << >> THEN pg
        ELSE IF my # << >> THEN my
        ELSE NoneList

\* extract_columns_from_integrity
extract_columns_from_integrity(exc) ==
    LET msg == IF exc.hasOrig THEN exc.msg ELSE StrExc(exc)
        pg == _extract_columns_postgres(msg)
        lite == _extract_columns_sqlite(msg)
        my == _extract_columns_mysql(msg)
    IN  IF pg # << >> THEN pg
        ELSE IF lite # << >> THEN lite
        ELSE IF my # << >> THEN my
        ELSE NoneList


\* model_part = f"{model_name}" if model_name else "Record"
ModelPart(model_name) == IF Truthy(model_name) THEN model_name ELSE "Record"

\* ', '.join(columns)
CommaJoin(columns) == Join(columns, << ",", " " >>)

\* the branch for UniqueConstraintError (mapper.py 110-126)
MutUniqueAsRepositoryError(columns, constraint_name, model_part) ==
    RepositoryError(<< model_part, " " >> \o Words(<< "already", "exists" >>),
                    columns, constraint_name, NoneStr)

MutUniqueConstraintFirst(columns, constraint_name, model_part) ==
    IF Truthy(constraint_name)
    THEN DuplicateError(
            << model_part, " " >> \o Words(<< "already", "exists" >>)
               \o << " ", "(", "constraint", ":", " ", constraint_name, ")" >>,
            NoneList, constraint_name)
    ELSE DuplicateError(
            << model_part, " " >> \o Words(<< "already", "exists" >>)
               \o << " ", "(", "unique", " ", "constraint", ")" >>,
            columns, constraint_name)

MapUnique(columns, constraint_name, model_part) ==
    IF columns # << >>
    THEN DuplicateError(
            << model_part, " " >> \o Words(<< "already", "exists", "for" >>)
               \o << " ", "field", "(", "s", ")", ":", " " >> \o CommaJoin(columns),
            columns, constraint_name)
    ELSE IF Truthy(constraint_name)
    THEN DuplicateError(
            << model_part, " " >> \o Words(<< "already", "exists" >>)
               \o << " ", "(", "constraint", ":", " ", constraint_name, ")" >>,
            NoneList, constraint_name)
    ELSE DuplicateError(
            << model_part, " " >> \o Words(<< "already", "exists" >>)
               \o << " ", "(", "unique", " ", "constraint", ")" >>,
            NoneList, constraint_name)

\* the branch for NotNullConstraintError (mapper.py 129-141)
MapNotNull(columns, constraint_name, model_part) ==
    IF columns # << >>
    THEN RepositoryError(
            Words(<< "Missing", "required" >>)
               \o << " ", "field", "(", "s", ")", ":", " " >> \o CommaJoin(columns)
               \o << " ", "for", " ", model_part >>,
            columns, constraint_name, NoneStr)
    ELSE IF Truthy(constraint_name)
    THEN RepositoryError(
            Words(<< "Missing", "required", "field", "for", model_part >>)
               \o << " ", "(", "constraint", ":", " ", constraint_name, ")" >>,
            NoneList, constraint_name, NoneStr)
    ELSE RepositoryError(
            Words(<< "Missing", "required", "field", "for", model_part >>),
            NoneList, NoneStr, NoneStr)

\* the branch for ForeignKeyConstraintError (mapper.py 144-154)
MapForeignKey(columns, constraint_name, model_part) ==
    IF columns # << >>
    THEN RepositoryError(
            Words(<< model_part, "referenced", "entity", "not", "found", "for" >>)
               \o << " ", "field", "(", "s", ")", ":", " " >> \o CommaJoin(columns),
            columns, constraint_name, NoneStr)
    ELSE IF Truthy(constraint_name)
    THEN RepositoryError(
            Words(<< model_part, "foreign", "key", "violation" >>)
               \o << " ", "(", "constraint", ":", " ", constraint_name, ")" >>,
            NoneList, constraint_name, NoneStr)
    ELSE RepositoryError(
            Words(<< model_part, "foreign", "key", "constraint", "violated" >>),
            NoneList, NoneStr, NoneStr)

\* the branch for CheckConstraintError (mapper.py 157-167)
MutCheckEchoesRaw(raw, constraint_name, model_part) ==
    RepositoryError(
        Words(<< model_part, "business", "rule", "violated" >>) \o << ":", " " >> \o raw,
        NoneList, constraint_name, NoneStr)

MapCheck(raw, constraint_name, model_part) ==
    RepositoryError(
        Words(<< model_part, "business", "rule", "violated" >>)
           \o << " ", "(", "check", " ", "constraint", ")", "." >>,
        NoneList, constraint_name, NoneStr)

\* the fallback branch (mapper.py 170-180): raise ... from exc
MapUnknown(raw, constraint_name, model_part) ==
    [RepositoryError(
        Words(<< model_part, "database", "integrity", "error" >>) \o << "." >>,
        NoneList, NoneStr, NoneStr)
     EXCEPT !.cause = "IntegrityError"]

\* raise_mapped_integrity_error: the exception it raises
raise_mapped_integrity_error(exc, model_name) ==
    LET c == classify_integrity_error(exc)
        columns == extract_columns_from_integrity(exc)
        model_part == ModelPart(model_name)
        raw == IF exc.hasOrig THEN exc.msg ELSE StrExc(exc)
    IN  CASE c.cls = "UniqueConstraintError" -> MapUnique(columns, c.constraint, model_part)
          [] c.cls = "NotNullConstraintError" -> MapNotNull(columns, c.constraint, model_part)
          [] c.cls = "ForeignKeyConstraintError" -> MapForeignKey(columns, c.constraint, model_part)
          [] c.cls = "CheckConstraintError" -> MapCheck(raw, c.constraint, model_part)
          [] OTHER -> MapUnknown(raw, c.constraint, model_part)

\* ------------------------------------------------- log events

\* a record handed to a logger: its level, the module of the logger, the
\* formatted message and the keys of extra
LogEvent(level, logger, msg, extra) ==
    [level |-> level, logger |-> logger, msg |-> msg, extra |-> extra]

NoExtra == [k \in {} |-> NoneStr]

\* logging's numeric order of the levels
LevelNo(level) ==
    CASE level = "debug" -> 10
      [] level = "info" -> 20
      [] level = "warning" -> 30
      [] level = "error" -> 40

\* the events of classify_integrity_error: the warning of
\* _classify_from_postgres_diag for a code outside the table, the warning
\* of _classify_from_generic_message for a message no list matches
ClassifierLog(exc) ==
    LET diag == _classify_from_postgres_diag(exc)
        msg == StrOrig(exc)
    IN  IF diag.cls # NoneStr
        THEN IF PGCODE_EXCEPTION_MAP(exc.pgcode) # NoneStr
             THEN << >>
             ELSE << LogEvent("warning", "integrity_classifier",
                        Words(<< "Unknown", "Postgres", "integrity", "error", "code",
                                 "encountered" >>) \o << ":", " ", exc.pgcode >>,
                        NoExtra) >>
        ELSE IF _classify_from_generic_message(msg).cls # "UnknownIntegrityError"
             THEN << >>
             ELSE << LogEvent("warning", "integrity_classifier",
                        Words(<< "Unknown", "integrity", "error", "message",
                                 "encountered" >>) \o << ":", " " >> \o msg,
                        NoExtra) >>

\* the events of raise_mapped_integrity_error, those of the classifier it
\* calls first
MutMapperLogDuplicateAtDebug(exc, model_name) ==
    LET c == classify_integrity_error(exc)
        columns == extract_columns_from_integrity(exc)
        model_part == ModelPart(model_name)
        raw == IF exc.hasOrig THEN exc.msg ELSE StrExc(exc)
        context == [model |-> model_part, fields |-> columns, constraint |-> c.constraint]
    IN  ClassifierLog(exc) \o
        CASE c.cls = "UniqueConstraintError" ->
                << LogEvent("debug", "mapper", << "mapper.duplicate_detected" >>, context) >>
          [] c.cls = "NotNullConstraintError" ->
                << LogEvent("info", "mapper", << "mapper.not_null_violation" >>, context) >>
          [] c.cls = "ForeignKeyConstraintError" ->
                << LogEvent("info", "mapper", << "mapper.foreign_key_violation" >>, context) >>
          [] c.cls = "CheckConstraintError" ->
                << LogEvent("debug", "mapper", << "mapper.check_constraint_failure" >>,
                            [model |-> model_part, raw |-> raw, constraint |-> c.constraint]) >>
          [] OTHER ->
                << LogEvent("warning", "mapper", << "mapper.unknown_integrity_error" >>,
                            [model |-> model_part, constraint |-> c.constraint]),
                   LogEvent("debug", "mapper", << "mapper.unknown_integrity_raw" >>,
                            [model |-> model_part, raw |-> raw]) >>

MapperLog(exc, model_name) ==
    LET c == classify_integrity_error(exc)
        columns == extract_columns_from_integrity(exc)
        model_part == ModelPart(model_name)
        raw == IF exc.hasOrig THEN exc.msg ELSE StrExc(exc)
        context == [model |-> model_part, fields |-> columns, constraint |-> c.constraint]
    IN  ClassifierLog(exc) \o
        CASE c.cls = "UniqueConstraintError" ->
                << LogEvent("info", "mapper", << "mapper.duplicate_detected" >>, context) >>
          [] c.cls = "NotNullConstraintError" ->
                << LogEvent("info", "mapper", << "mapper.not_null_violation" >>, context) >>
          [] c.cls = "ForeignKeyConstraintError" ->
                << LogEvent("info", "mapper", << "mapper.foreign_key_violation" >>, context) >>
          [] c.cls = "CheckConstraintError" ->
                << LogEvent("debug", "mapper", << "mapper.check_constraint_failure" >>,
                            [model |-> model_part, raw |-> raw, constraint |-> c.constraint]) >>
          [] OTHER ->
                << LogEvent("warning", "mapper", << "mapper.unknown_integrity_error" >>,
                            [model |-> model_part, constraint |-> c.constraint]),
                   LogEvent("debug", "mapper", << "mapper.unknown_integrity_raw" >>,
                            [model |-> model_part, raw |-> raw]) >>

\* ------------------------------------------------------------ inputs

PgCodes == {NoneStr, "23505", "23502", "23503", "23514", "99999"}

ConstraintNames == {NoneStr, "users_email_key"}

ModelNames == {"User", NoneStr}

\* str(orig) of the drivers, and texts at the edges of the keyword lists
MsgSqliteUnique ==
    Words(<< "UNIQUE", "constraint", "failed" >>) \o << ":", " ", "users", ".", "email" >>
MsgSqliteUnique2 ==
    MsgSqliteUnique \o << ",", " ", "users", ".", "username" >>
MsgSqliteNotNull ==
    Words(<< "NOT", "NULL", "constraint", "failed" >>) \o << ":", " ", "users", ".", "email" >>
MsgSqliteForeignKey ==
    Words(<< "FOREIGN", "KEY", "constraint", "failed" >>)
MsgSqliteCheck ==
    Words(<< "CHECK", "constraint", "failed" >>) \o << ":", " ", "ck_users_age" >>
MsgPgUnique ==
    Words(<< "duplicate", "key", "value", "violates", "unique", "constraint" >>)
       \o << " ", "\"", "users_email_key", "\"", "\n" >>
       \o << "DETAIL", ":", " ", "Key", " ", "(", "email", ")", "=", "(", "a@b.c", ")", " " >>
       \o Words(<< "already", "exists" >>) \o << "." >>
MsgPgNotNull ==
    Words(<< "null", "value", "in", "column" >>) \o << " ", "\"", "username", "\"", " " >>
       \o Words(<< "violates", "not-null", "constraint" >>)
MsgMysqlDuplicate ==
    Words(<< "Duplicate", "entry" >>) \o << " ", "'", "foo", "'", " " >>
       \o Words(<< "for", "key" >>) \o << " ", "'", "idx_users_email", "'" >>
MsgUnmatched == Words(<< "disk", "quota", "exceeded" >>)
MsgCheckOnly == Words(<< "check", "constraint" >>)
MsgIntegrityOnly == Words(<< "integrity", "error" >>)
MsgEmpty == << >>
\* texts with keywords of several lists
MsgCheckThenUnique ==
    Words(<< "CHECK", "constraint", "on", "UNIQUE", "constraint" >>)
\* texts that more than one extractor takes columns from
MsgPgKeyAndSqlite ==
    << "Key", " ", "(", "email", ")", "=", "(", "a@b.c", ")", ";", " " >>
       \o Words(<< "UNIQUE", "constraint", "failed" >>) \o << ":", " ", "users", ".", "username" >>

Messages ==
    { MsgSqliteUnique, MsgSqliteUnique2, MsgSqliteNotNull, MsgSqliteForeignKey,
      MsgSqliteCheck, MsgPgUnique, MsgPgNotNull, MsgMysqlDuplicate,
      MsgUnmatched, MsgCheckOnly, MsgIntegrityOnly, MsgEmpty,
      MsgCheckThenUnique, MsgPgKeyAndSqlite,
      Words(<< "check", "failed" >>) \o << ",", " " >> \o Words(<< "foreign", "key" >>)
         \o << ",", " " >> \o Words(<< "NOT", "NULL" >>),
      Words(<< "check", "constraint", "of", "foreign", "key" >>),
      MsgMysqlDuplicate \o << ";", " " >> \o MsgSqliteUnique }

\* the IntegrityErrors a flush can raise
Violations ==
    { IntegrityErrorOf(TRUE, p, c, m) : p \in PgCodes, c \in ConstraintNames, m \in Messages }
    \cup { IntegrityErrorOf(FALSE, NoneStr, NoneStr, << >>) }

ErrorCodes ==
    {NoneStr, "", "duplicate", "invalid_field", "not_found", "invalid_input", "teapot"}

\* domain errors as the repositories construct them
DomainErrors ==
    { RepositoryError(m, f, c, code) :
        m \in {Words(<< "Not", "found" >>)},
        f \in {NoneList, << << "email" >> >>},
        c \in ConstraintNames,
        code \in ErrorCodes }
    \cup { NotFoundError(Words(<< "Not", "found" >>), f) : f \in {NoneList, << << "id" >> >>} }
    \cup { DuplicateError(Words(<< "User", "already", "exists" >>), f, c) :
             f \in {NoneList, << << "email" >> >>}, c \in ConstraintNames }
    \cup { InvalidFieldError(Words(<< "Unknown", "field" >>), f) :
             f \in {NoneList, << << "nickname" >> >>} }


\* ------------------------------------------------------------- state

\* how many creates a session may start
MaxOps == 2

\* how many flushes fail for a reason other than a unique conflict, and how
\* many rollbacks fail, in one run
MaxFaults == 1
MaxRollbackFailures == 1

Sessions == {"s1", "s2"}

Usernames == {"u1", "u2"}
Emails == {"e1", "e2"}

\* the keyword arguments of a create on User: the two unique columns; the
\* rows chosen clash on both columns, on one of them, or on none
Rows ==
    { r \in [username : Usernames, email : Emails] :
         ~(r.username = "u2" /\ r.email = "e1") }

\* no create is running
NoRow == [username |-> NoneStr, email |-> NoneStr]

\* an exception that is no IntegrityError carries no violation
NoViolation == IntegrityErrorOf(FALSE, NoneStr, NoneStr, << "-" >>)

\* an exception raised inside the guarded block
BlockExc(type, exc) == [type |-> type, exc |-> exc]
NoBlockExc == BlockExc("none", NoViolation)

\* what a repository call gave its caller: the entity, or a raised
\* exception (a domain error, or a raw exception of the storage layer)
Returned ==
    [type |-> "ok", message |-> << >>, fields |-> NoneList, constraint |-> NoneStr,
     error_code |-> NoneStr, cause |-> NoneStr, context |-> NoneStr]
NothingYet == [Returned EXCEPT !.type = "none"]
RawException(type) == [Returned EXCEPT !.type = type]

NoError == [type |-> "none"]
NoResponse == [status |-> 0]
NoClass == [cls |-> NoneStr, constraint |-> NoneStr]

VARIABLES
    committed,   \* the rows of the table that are committed
    pending,     \* per session: rows flushed in its open transaction
    sess,        \* per session: "active", or "failed" (a flush failed and
                 \* the transaction waits for a rollback)
    pc,          \* per session: "idle", "guard" (inside the guarded block,
                 \* before the flush), "handler" (in an except clause of
                 \* db_error_handler, before the rollback)
    cur,         \* per session: the kwargs of the create in its guarded block
    inblock,     \* per session: the exception the guarded block raised
    last,        \* per session: what the last call returned or raised
    how,         \* per session: how the last call ended
    prev,        \* per session: how the call before that ended
    trace,       \* per session: session calls and the raise of the last call
    nops,        \* per session: creates started
    faults,      \* flushes that failed for another reason than a unique conflict
    rbfails,     \* rollbacks that failed
    violation,   \* mapper alone: the IntegrityError handed to it
    model_name,  \* mapper alone: its model_name argument
    classified,  \* mapper alone: the result of classify_integrity_error
    columns,     \* mapper alone: the result of extract_columns_from_integrity
    err,         \* mapper alone: the domain error raised or constructed
    emitted,     \* mapper alone: the log events of classifier and mapper
    response,    \* mapper alone: status and body the error handler sends
    users,       \* one repository alone: the users the session sees
    conversations, \* one repository alone: the conversations it sees
    messages,    \* one repository alone: the messages it sees
    saved,       \* one repository alone: the rows as of the last commit
    used,        \* one repository alone: the ids handed out so far
    ret,         \* one repository alone: the last call and its outcome
    ncalls,      \* one repository alone: calls made
    nfaults,     \* one repository alone: statements and rollbacks that failed
    queue,       \* log queue: the records waiting for the listener
    dropped_logs_count, \* log queue: _DROPPED_LOGS_COUNT
    lock,        \* log queue: the producer that holds _DROPPED_LOGS_LOCK
    qpc,         \* log queue, per producer: its position in emit
    qout,        \* log queue, per producer: how its last emit ended
    qemits,      \* log queue, per producer: emits started
    ndropped,    \* log queue: records that put_nowait refused
    ctx,         \* middleware, per request: _request_id_ctx in its context
    prior,       \* middleware, per request: _request_id_ctx before dispatch
    mpc,         \* middleware, per request: "new", "handling", "ended"
    hdr,         \* middleware, per request: its incoming X-Request-ID
    rid,         \* middleware, per request: the rid of dispatch
    token,       \* middleware, per request: the token of set_request_id
    records,     \* middleware, per request: the log records of its context
    resp         \* middleware, per request: X-Request-ID of the response

repoVars == << committed, pending, sess, pc, cur, inblock, last, how, prev, trace, nops,
              faults, rbfails >>
mapperVars == << violation, model_name, classified, columns, err, emitted, response >>
crudVars == << users, conversations, messages, saved, used, ret, ncalls, nfaults >>
queueVars == << queue, dropped_logs_count, lock, qpc, qout, qemits, ndropped >>
mwVars == << ctx, prior, mpc, hdr, rid, token, records, resp >>
logVars == << queueVars, mwVars >>
vars == << committed, pending, sess, pc, cur, inblock, last, how, prev, trace, nops,
           faults, rbfails,
           violation, model_name, classified, columns, err, emitted, response,
           users, conversations, messages, saved, used, ret, ncalls, nfaults,
           queue, dropped_logs_count, lock, qpc, qout, qemits, ndropped,
           ctx, prior, mpc, hdr, rid, token, records, resp >>

InitRepo ==
    /\ committed = {}
    /\ pending = [s \in Sessions |-> {}]
    /\ sess = [s \in Sessions |-> "active"]
    /\ pc = [s \in Sessions |-> "idle"]
    /\ cur = [s \in Sessions |-> NoRow]
    /\ inblock = [s \in Sessions |-> NoBlockExc]
    /\ last = [s \in Sessions |-> NothingYet]
    /\ how = [s \in Sessions |-> "none"]
    /\ prev = [s \in Sessions |-> "none"]
    /\ trace = [s \in Sessions |-> << >>]
    /\ nops = [s \in Sessions |-> 0]
    /\ faults = 0
    /\ rbfails = 0

IdleMapper ==
    /\ violation = NoViolation
    /\ model_name = NoneStr
    /\ classified = NoClass
    /\ columns = NoneList
    /\ err = NoError
    /\ emitted = << >>
    /\ response = NoResponse

\* no call made on the repository that is followed alone
NoCall ==
    [op |-> "none", arg |-> NoneStr, out |-> NoneStr, err |-> NothingYet,
     why |-> "none",
     before |-> [users |-> {}, conversations |-> {}, messages |-> {}]]

IdleCrud ==
    /\ users = {}
    /\ conversations = {}
    /\ messages = {}
    /\ saved = [users |-> {}, conversations |-> {}, messages |-> {}]
    /\ used = {}
    /\ ret = NoCall
    /\ ncalls = 0
    /\ nfaults = 0

\* the producers of log records and the requests in flight
Producers == {"p1", "p2"}
Requests == {"r1", "r2"}

IdleQueue ==
    /\ queue = << >>
    /\ dropped_logs_count = 0
    /\ lock = NoneStr
    /\ qpc = [p \in Producers |-> "idle"]
    /\ qout = [p \in Producers |-> "none"]
    /\ qemits = [p \in Producers |-> 0]
    /\ ndropped = 0

AwaitingRequests ==
    /\ prior = ctx
    /\ mpc = [r \in Requests |-> "new"]
    /\ hdr = [r \in Requests |-> NoneStr]
    /\ rid = [r \in Requests |-> NoneStr]
    /\ token = [r \in Requests |-> NoneStr]
    /\ records = [r \in Requests |-> << >>]
    /\ resp = [r \in Requests |-> NoneStr]

IdleLog == IdleQueue /\ ctx = [r \in Requests |-> NoneStr] /\ AwaitingRequests

Init == InitRepo /\ IdleMapper /\ IdleCrud /\ IdleLog

\* ------------------------ app/validators/exception_validators.py

\* get_unique_column_sets(User): username and email are each unique
UniqueColumnSets == { {"username"}, {"email"} }

\* find_unique_conflicts
MutConflictsUsernameOnly(view, kwargs) ==
    UNION { cols \in {{"username"}} :
              \E r \in view : \A c \in cols : r[c] = kwargs[c] }

\* find_unique_conflicts: view is what a SELECT of the session sees
find_unique_conflicts(view, kwargs) ==
    UNION { cols \in UniqueColumnSets :
              \E r \in view : \A c \in cols : r[c] = kwargs[c] }

\* sorted(conflicts), each column name a one-token string
SortedColumns(S) ==
    LET order == << "email", "username" >>
        F[i \in 0..Len(order)] ==
            IF i = 0 THEN << >>
            ELSE IF order[i] \in S THEN F[i - 1] \o << << order[i] >> >> ELSE F[i - 1]
    IN  F[Len(order)]

\* ------------------------------- the store (READ COMMITTED, Postgres)

\* a SELECT of session s sees the committed rows and its own writes
View(s) == committed \cup pending[s]

Clash(r, q) == \E cols \in UniqueColumnSets : \A c \in cols : r[c] = q[c]

\* an INSERT waits while another open transaction holds a clashing row
Blocked(s, r) == \E t \in Sessions \ {s} : \E q \in pending[t] : Clash(r, q)

\* the shapes in which drivers report a unique violation on users.email
UniqueViolations ==
    { IntegrityErrorOf(TRUE, "23505", "users_email_key", MsgPgUnique),
      IntegrityErrorOf(TRUE, NoneStr, "users_email_key", MsgPgUnique),
      IntegrityErrorOf(TRUE, NoneStr, NoneStr, MsgSqliteUnique),
      IntegrityErrorOf(TRUE, NoneStr, NoneStr, MsgMysqlDuplicate) }

\* the two of them that differ in the path the classifier takes
UniqueViolationsShort ==
    { IntegrityErrorOf(TRUE, "23505", "users_email_key", MsgPgUnique),
      IntegrityErrorOf(TRUE, NoneStr, NoneStr, MsgSqliteUnique) }

\* violations of constraints on columns the rows above leave out
OtherViolations ==
    { IntegrityErrorOf(TRUE, NoneStr, NoneStr, MsgPgNotNull),
      IntegrityErrorOf(TRUE, NoneStr, NoneStr, MsgSqliteCheck),
      IntegrityErrorOf(TRUE, "99999", "users_email_key", MsgUnmatched) }


\* ------------------------------------ db_error_handler (mapper.py)

\* the exception that leaves db_error_handler when the guarded block
\* raised raised: raised inside an except clause, so raised is its
\* __context__; the second clause adds "from exc"
MutGuardReraisesUnexpected(raised, name) ==
    IF raised.type = "IntegrityError"
    THEN [raise_mapped_integrity_error(raised.exc, name) EXCEPT !.context = raised.type]
    ELSE RawException(raised.type)

MutGuardPassesDomainErrors(raised, name) ==
    IF raised.type = "IntegrityError"
    THEN [raise_mapped_integrity_error(raised.exc, name) EXCEPT !.context = raised.type]
    ELSE IF raised.type = "DuplicateError"
    THEN DuplicateError(Words(<< "User", "already", "exists" >>), NoneList, NoneStr)
    ELSE [RepositoryError(
             Words(<< "Failed", "to", "operate", "on",
                      IF Truthy(name) THEN name ELSE "database" >>),
             NoneList, NoneStr, NoneStr)
          EXCEPT !.cause = raised.type, !.context = raised.type]

GuardError(raised, name) ==
    IF raised.type = "IntegrityError"
    THEN [raise_mapped_integrity_error(raised.exc, name) EXCEPT !.context = raised.type]
    ELSE [RepositoryError(
             Words(<< "Failed", "to", "operate", "on",
                      IF Truthy(name) THEN name ELSE "database" >>),
             NoneList, NoneStr, NoneStr)
          EXCEPT !.cause = raised.type, !.context = raised.type]

GuardTag(raised, rb) ==
    (IF raised.type = "IntegrityError" THEN "integrity" ELSE "unexpected")
    \o (IF rb = "ok" THEN "_rb_ok" ELSE "_rb_failed")

\* An except clause of db_error_handler in session s: await db.rollback()
\* inside try/except Exception, then the raise.  rb is what the rollback
\* did: "ok"; "failed" (it raised and changed nothing); "failed_reset" (it
\* raised after the transaction was given up).
MutGuardNoRollback(s, rb) ==
    /\ pc[s] = "handler"
    /\ rb # "ok" => rbfails < MaxRollbackFailures
    /\ rbfails' = IF rb = "ok" THEN rbfails ELSE rbfails + 1
    /\ UNCHANGED << pending, sess >>
    /\ trace' = [trace EXCEPT ![s] = @ \o << "raise" >>]
    /\ last' = [last EXCEPT ![s] = GuardError(inblock[s], "User")]
    /\ how' = [how EXCEPT ![s] = GuardTag(inblock[s], rb)]
    /\ pc' = [pc EXCEPT ![s] = "idle"]
    /\ cur' = [cur EXCEPT ![s] = NoRow]
    /\ UNCHANGED << committed, inblock, prev, nops, faults >>

MutGuardRollbackErrorEscapes(s, rb) ==
    /\ pc[s] = "handler"
    /\ rb # "ok" => rbfails < MaxRollbackFailures
    /\ rbfails' = IF rb = "ok" THEN rbfails ELSE rbfails + 1
    /\ pending' = [pending EXCEPT ![s] = IF rb = "failed" THEN @ ELSE {}]
    /\ sess' = [sess EXCEPT ![s] = IF rb = "failed" THEN @ ELSE "active"]
    /\ trace' = [trace EXCEPT ![s] =
                    @ \o << IF rb = "ok" THEN "rollback" ELSE "rollback_failed", "raise" >>]
    /\ last' = [last EXCEPT ![s] =
                    IF rb = "ok" THEN GuardError(inblock[s], "User")
                    ELSE [RawException("InterfaceError") EXCEPT !.context = inblock[s].type]]
    /\ how' = [how EXCEPT ![s] = GuardTag(inblock[s], rb)]
    /\ pc' = [pc EXCEPT ![s] = "idle"]
    /\ cur' = [cur EXCEPT ![s] = NoRow]
    /\ UNCHANGED << committed, inblock, prev, nops, faults >>

db_error_handler(s, rb) ==
    /\ pc[s] = "handler"
    /\ rb # "ok" => rbfails < MaxRollbackFailures
    /\ rbfails' = IF rb = "ok" THEN rbfails ELSE rbfails + 1
    /\ pending' = [pending EXCEPT ![s] = IF rb = "failed" THEN @ ELSE {}]
    /\ sess' = [sess EXCEPT ![s] = IF rb = "failed" THEN @ ELSE "active"]
    /\ trace' = [trace EXCEPT ![s] =
                    @ \o << IF rb = "ok" THEN "rollback" ELSE "rollback_failed", "raise" >>]
    /\ last' = [last EXCEPT ![s] = GuardError(inblock[s], "User")]
    /\ how' = [how EXCEPT ![s] = GuardTag(inblock[s], rb)]
    /\ pc' = [pc EXCEPT ![s] = "idle"]
    /\ cur' = [cur EXCEPT ![s] = NoRow]
    /\ UNCHANGED << committed, inblock, prev, nops, faults >>

\* ------------------------- BaseRepository.create (base_repository.py)

\* create up to the guarded block: the pre-check for unique conflicts
\* (the checks for unknown and missing fields pass: kwargs holds exactly
\* the required columns); the pre-check's SELECTs are one step
create_precheck(s, kwargs) ==
    /\ pc[s] = "idle"
    /\ nops[s] < MaxOps
    /\ sess[s] = "active"
    /\ LET conflicts == find_unique_conflicts(View(s), kwargs)
       IN  IF conflicts # {}
           THEN /\ last' = [last EXCEPT ![s] =
                       DuplicateError(
                           Words(<< "User", "already", "exists", "for" >>)
                              \o << " ", "field", "(", "s", ")", ":", " " >>
                              \o CommaJoin(SortedColumns(conflicts)),
                           SortedColumns(conflicts), NoneStr)]
                /\ how' = [how EXCEPT ![s] = "precheck_duplicate"]
                /\ trace' = [trace EXCEPT ![s] = << "select", "raise" >>]
                /\ pc' = pc
           ELSE /\ last' = [last EXCEPT ![s] = NothingYet]
                /\ how' = [how EXCEPT ![s] = "running"]
                /\ trace' = [trace EXCEPT ![s] = << "select" >>]
                /\ pc' = [pc EXCEPT ![s] = "guard"]
    /\ cur' = [cur EXCEPT ![s] =
                  IF find_unique_conflicts(View(s), kwargs) # {} THEN NoRow ELSE kwargs]
    /\ prev' = [prev EXCEPT ![s] = how[s]]
    /\ inblock' = [inblock EXCEPT ![s] = NoBlockExc]
    /\ nops' = [nops EXCEPT ![s] = @ + 1]
    /\ UNCHANGED << committed, pending, sess, faults, rbfails >>

\* create on a session whose failed transaction was never rolled back: the
\* pre-check's SELECT raises PendingRollbackError, outside the guard
create_precheck_poisoned(s, kwargs) ==
    /\ pc[s] = "idle"
    /\ nops[s] < MaxOps
    /\ sess[s] = "failed"
    /\ last' = [last EXCEPT ![s] = RawException("PendingRollbackError")]
    /\ how' = [how EXCEPT ![s] = "raw"]
    /\ trace' = [trace EXCEPT ![s] = << "select", "raise" >>]
    /\ prev' = [prev EXCEPT ![s] = how[s]]
    /\ inblock' = [inblock EXCEPT ![s] = NoBlockExc]
    /\ nops' = [nops EXCEPT ![s] = @ + 1]
    /\ UNCHANGED << committed, pending, sess, pc, cur, faults, rbfails >>

\* the guarded block runs to its end: add, flush, refresh, return entity;
\* db_error_handler does nothing after the yield
MutFlushCommits(s) ==
    /\ pc[s] = "guard"
    /\ ~Blocked(s, cur[s])
    /\ \A q \in View(s) : ~Clash(cur[s], q)
    /\ committed' = committed \cup pending[s] \cup {cur[s]}
    /\ pending' = [pending EXCEPT ![s] = {}]
    /\ last' = [last EXCEPT ![s] = Returned]
    /\ how' = [how EXCEPT ![s] = "ok"]
    /\ trace' = [trace EXCEPT ![s] = @ \o << "add", "flush", "refresh", "commit" >>]
    /\ pc' = [pc EXCEPT ![s] = "idle"]
    /\ cur' = [cur EXCEPT ![s] = NoRow]
    /\ UNCHANGED << sess, inblock, prev, nops, faults, rbfails >>

flush_ok(s) ==
    /\ pc[s] = "guard"
    /\ ~Blocked(s, cur[s])
    /\ \A q \in View(s) : ~Clash(cur[s], q)
    /\ pending' = [pending EXCEPT ![s] = @ \cup {cur[s]}]
    /\ last' = [last EXCEPT ![s] = Returned]
    /\ how' = [how EXCEPT ![s] = "ok"]
    /\ trace' = [trace EXCEPT ![s] = @ \o << "add", "flush", "refresh" >>]
    /\ pc' = [pc EXCEPT ![s] = "idle"]
    /\ cur' = [cur EXCEPT ![s] = NoRow]
    /\ UNCHANGED << committed, sess, inblock, prev, nops, faults, rbfails >>

\* the flush meets a committed row with the same unique key: IntegrityError
flush_unique_violation(s, v) ==
    /\ pc[s] = "guard"
    /\ \E q \in committed : Clash(cur[s], q)
    /\ inblock' = [inblock EXCEPT ![s] = BlockExc("IntegrityError", v)]
    /\ sess' = [sess EXCEPT ![s] = "failed"]
    /\ trace' = [trace EXCEPT ![s] = @ \o << "add", "flush" >>]
    /\ pc' = [pc EXCEPT ![s] = "handler"]
    /\ UNCHANGED << committed, pending, cur, last, how, prev, nops, faults, rbfails >>

\* the guarded block fails otherwise: another constraint is violated, the
\* statement fails with an exception that is no IntegrityError (which may
\* or may not leave the transaction failed), or code in the block raises a
\* domain error
flush_fault(s, x, failed) ==
    /\ pc[s] = "guard"
    /\ faults < MaxFaults
    /\ faults' = faults + 1
    /\ x.type = "IntegrityError" => failed
    /\ inblock' = [inblock EXCEPT ![s] = x]
    /\ sess' = [sess EXCEPT ![s] = IF failed THEN "failed" ELSE @]
    /\ trace' = [trace EXCEPT ![s] = @ \o << "add", "flush" >>]
    /\ pc' = [pc EXCEPT ![s] = "handler"]
    /\ UNCHANGED << committed, pending, cur, last, how, prev, nops, rbfails >>

\* what is raised in the block and is no Exception: asyncio.CancelledError
\* and KeyboardInterrupt derive from BaseException
Interruptions == {"CancelledError", "KeyboardInterrupt"}

MutInterruptedRollsBack(s, x, flushed) ==
    /\ pc[s] = "guard"
    /\ faults < MaxFaults
    /\ faults' = faults + 1
    /\ flushed => ~Blocked(s, cur[s]) /\ \A q \in View(s) : ~Clash(cur[s], q)
    /\ pending' = [pending EXCEPT ![s] = {}]
    /\ last' = [last EXCEPT ![s] = RawException(x)]
    /\ how' = [how EXCEPT ![s] = "interrupted"]
    /\ trace' = [trace EXCEPT ![s] =
                    @ \o (IF flushed THEN << "add", "flush" >> ELSE << "add" >>)
                      \o << "rollback", "raise" >>]
    /\ pc' = [pc EXCEPT ![s] = "idle"]
    /\ cur' = [cur EXCEPT ![s] = NoRow]
    /\ UNCHANGED << committed, sess, inblock, prev, nops, rbfails >>

\* the guarded block is left by an interruption, at the await of the flush
\* (nothing sent yet) or at the await of the refresh (the row is flushed):
\* neither except clause of db_error_handler matches, so nothing of the
\* handler runs and the interruption goes on to the caller
block_interrupted(s, x, flushed) ==
    /\ pc[s] = "guard"
    /\ faults < MaxFaults
    /\ faults' = faults + 1
    /\ flushed => ~Blocked(s, cur[s]) /\ \A q \in View(s) : ~Clash(cur[s], q)
    /\ pending' = [pending EXCEPT ![s] = IF flushed THEN @ \cup {cur[s]} ELSE @]
    /\ last' = [last EXCEPT ![s] = RawException(x)]
    /\ how' = [how EXCEPT ![s] = "interrupted"]
    /\ trace' = [trace EXCEPT ![s] =
                    @ \o (IF flushed THEN << "add", "flush" >> ELSE << "add" >>)
                      \o << "raise" >>]
    /\ pc' = [pc EXCEPT ![s] = "idle"]
    /\ cur' = [cur EXCEPT ![s] = NoRow]
    /\ UNCHANGED << committed, sess, inblock, prev, nops, rbfails >>

FlushFaults ==
    { BlockExc("IntegrityError", v) : v \in OtherViolations }
    \cup { BlockExc("OperationalError", NoViolation),
           BlockExc("DuplicateError", NoViolation) }

\* the caller commits the session
commit(s) ==
    /\ pc[s] = "idle"
    /\ sess[s] = "active"
    /\ pending[s] # {}
    /\ committed' = committed \cup pending[s]
    /\ pending' = [pending EXCEPT ![s] = {}]
    /\ UNCHANGED << sess, pc, cur, inblock, last, how, prev, trace, nops, faults, rbfails >>

\* ------------------------------------------------- the mapper alone

InitMapper ==
    /\ InitRepo
    /\ IdleCrud
    /\ IdleLog
    /\ classified = NoClass
    /\ columns = NoneList
    /\ emitted = << >>
    /\ response = NoResponse
    /\ \/ /\ violation \in Violations
          /\ model_name \in ModelNames
          /\ err = NoError
       \/ /\ violation = NoViolation
          /\ model_name = NoneStr
          /\ err \in DomainErrors

\* the first except clause of db_error_handler on an IntegrityError
map_integrity ==
    /\ violation # NoViolation
    /\ err = NoError
    /\ classified' = classify_integrity_error(violation)
    /\ columns' = extract_columns_from_integrity(violation)
    /\ err' = GuardError(BlockExc("IntegrityError", violation), model_name)
    /\ emitted' = MapperLog(violation, model_name)
    /\ UNCHANGED << violation, model_name, response >>
    /\ UNCHANGED << repoVars, crudVars, logVars >>

\* an exception handler of api/v1/error_handlers.py answers with the
\* status and the payload of the error
respond ==
    /\ err # NoError
    /\ response = NoResponse
    /\ response' = [status |-> http_status(err), payload |-> to_payload(err)]
    /\ UNCHANGED << violation, model_name, classified, columns, err, emitted >>
    /\ UNCHANGED << repoVars, crudVars, logVars >>

\* ------------- one repository on one session (base_repository.py)

\* how many calls are made on the repository
MaxCalls == 3

\* the values uuid4 gives the primary keys
UserIds == {"i1", "i2"}
ConversationIds == {"c1", "c2"}
MessageIds == {"m1"}

\* mapper.attrs of User: its columns and its relationship
UserAttrs ==
    {"id", "username", "email", "hashed_password", "is_active", "created_at",
     "updated_at", "conversations"}

\* User.__table__.columns in their order: nullable, and whether the column
\* has a default or a server default (models/user.py)
UserTable ==
    << [name |-> "id", nullable |-> FALSE, has_default |-> TRUE],
       [name |-> "username", nullable |-> FALSE, has_default |-> FALSE],
       [name |-> "email", nullable |-> FALSE, has_default |-> FALSE],
       [name |-> "hashed_password", nullable |-> FALSE, has_default |-> FALSE],
       [name |-> "is_active", nullable |-> FALSE, has_default |-> TRUE],
       [name |-> "created_at", nullable |-> FALSE, has_default |-> TRUE],
       [name |-> "updated_at", nullable |-> FALSE, has_default |-> TRUE] >>

\* the names of a sequence of columns
RECURSIVE ColumnNames(_)
ColumnNames(cols) ==
    IF cols = << >> THEN << >> ELSE << Head(cols).name >> \o ColumnNames(Tail(cols))

\* get_required_columns(User)
MutRequiredColumnsSorted == << "email", "hashed_password", "username" >>

\* get_required_columns(User); no column of User is an auto-increment key
get_required_columns ==
    ColumnNames(SelectSeq(UserTable, LAMBDA col : ~col.nullable /\ ~col.has_default))

\* the keyword arguments of a create, in the order the caller wrote them
KwargOrder == << "username", "email", "hashed_password", "nickname" >>

KwargValues(k) ==
    CASE k = "username" -> {"u1", "u2", NoneStr}
      [] k = "email" -> {"e1", "e2"}
      [] k = "hashed_password" -> {"pw", NoneStr}
      [] k = "nickname" -> {"nick"}

CreateKwargs ==
    UNION { { kw \in [K -> {"u1", "u2", "e1", "e2", "pw", "nick", NoneStr}] :
                \A k \in K : kw[k] \in KwargValues(k) } :
            K \in SUBSET {"username", "email", "hashed_password", "nickname"} }

\* find_unknown_model_kwargs(User, kwargs)
find_unknown_model_kwargs(kwargs) ==
    SelectSeq(KwargOrder, LAMBDA k : k \in DOMAIN kwargs /\ k \notin UserAttrs)

\* column names as the strings of a field list
RECURSIVE AsFields(_)
AsFields(names) ==
    IF names = << >> THEN << >> ELSE << << Head(names) >> >> \o AsFields(Tail(names))

\* what a call gave its caller, with the rows the session saw before it
Called(op, arg, out, e, why) ==
    [op |-> op, arg |-> arg, out |-> out, err |-> e, why |-> why,
     before |-> [users |-> users, conversations |-> conversations,
                 messages |-> messages]]

\* session.rollback()
MutRollbackKeepsWrites == UNCHANGED << users, conversations, messages >>

\* session.rollback(): every write since the last commit is discarded
Rollback ==
    /\ users' = saved.users
    /\ conversations' = saved.conversations
    /\ messages' = saved.messages

\* the rows of a model's table as the session sees them
Table(model) == IF model = "User" THEN users ELSE conversations

SetTable(model, rows) ==
    IF model = "User"
    THEN users' = rows /\ UNCHANGED << conversations, messages >>
    ELSE conversations' = rows /\ UNCHANGED << users, messages >>

\* BaseRepository.exists
exists(model, entity_id) == \E r \in Table(model) : r.id = entity_id

\* BaseRepository.get_by_id: the row, or None
get_by_id(model, entity_id) ==
    IF exists(model, entity_id)
    THEN CHOOSE r \in Table(model) : r.id = entity_id
    ELSE NoneStr

\* a check of create that stands before the guarded block raises: no
\* statement is sent and the session is left as it is
MutRejectedRollsBack(kwargs, e, why) ==
    /\ ret' = Called("create", kwargs, "raised", e, why)
    /\ Rollback
    /\ UNCHANGED << used, nfaults >>

Rejected(kwargs, e, why) ==
    /\ ret' = Called("create", kwargs, "raised", e, why)
    /\ UNCHANGED << users, conversations, messages, used, nfaults >>

\* BaseRepository.create on User, the only writer of the store: unknown
\* fields, missing required columns, the pre-check for unique conflicts,
\* then the guarded insert.  fault: the flush in the guarded block fails
\* for a reason that is no constraint violation, and db_error_handler rolls
\* the session back and raises.
create(kwargs, fault) ==
    /\ ncalls < MaxCalls
    /\ ncalls' = ncalls + 1
    /\ LET unknown == find_unknown_model_kwargs(kwargs)
           missing == SelectSeq(get_required_columns,
                                LAMBDA c : c \notin DOMAIN kwargs \/ kwargs[c] = NoneStr)
       IN  IF unknown # << >>
           THEN /\ ~fault
                /\ Rejected(kwargs,
                            InvalidFieldError(
                                << "Unknown", " ", "field", "(", "s", ")", " ", "for", " ",
                                   "User", ":", " " >> \o CommaJoin(AsFields(unknown)),
                                AsFields(unknown)),
                            "invalid_fields")
           ELSE IF missing # << >>
           THEN /\ ~fault
                /\ Rejected(kwargs,
                            RepositoryError(
                                Words(<< "Missing", "required" >>)
                                   \o << " ", "field", "(", "s", ")", ":", " " >>
                                   \o CommaJoin(AsFields(missing))
                                   \o << " ", "for", " ", "User" >>,
                                AsFields(missing), NoneStr, NoneStr),
                            "missing_required")
           ELSE LET conflicts == find_unique_conflicts(users, kwargs)
                IN  IF conflicts # {}
                    THEN /\ ~fault
                         /\ Rejected(kwargs,
                                     DuplicateError(
                                         Words(<< "User", "already", "exists", "for" >>)
                                            \o << " ", "field", "(", "s", ")", ":", " " >>
                                            \o CommaJoin(SortedColumns(conflicts)),
                                         SortedColumns(conflicts), NoneStr),
                                     "duplicate_precheck")
                    ELSE IF fault
                    THEN /\ nfaults < MaxFaults
                         /\ nfaults' = nfaults + 1
                         /\ Rollback
                         /\ ret' = Called("create", kwargs, "raised",
                                      GuardError(BlockExc("OperationalError", NoViolation),
                                                 "User"),
                                      "fault")
                         /\ UNCHANGED used
                    ELSE \E id \in UserIds \ used :
                            /\ users' = users \cup
                                  { [id |-> id, username |-> kwargs["username"],
                                     email |-> kwargs["email"]] }
                            /\ used' = used \cup {id}
                            /\ ret' = Called("create", kwargs, id, Returned, "ok")
                            /\ UNCHANGED << conversations, messages, nfaults >>
    /\ UNCHANGED saved

\* ConversationRepository.create_conversation: NotFoundError without the
\* user, else BaseRepository.create on Conversation
create_conversation(user_id) ==
    /\ ncalls < MaxCalls
    /\ ncalls' = ncalls + 1
    /\ IF ~exists("User", user_id)
       THEN /\ ret' = Called("create_conversation", user_id, "raised",
                         NotFoundError(Words(<< "User", "with", "ID", user_id, "not",
                                                "found" >>), NoneList),
                         "not_found")
            /\ UNCHANGED << conversations, used >>
       ELSE \E id \in ConversationIds \ used :
               /\ conversations' = conversations \cup { [id |-> id, user_id |-> user_id] }
               /\ used' = used \cup {id}
               /\ ret' = Called("create_conversation", user_id, id, Returned, "ok")
    /\ UNCHANGED << users, messages, saved, nfaults >>

\* the keyword arguments of an update
UpdateKwargs(model) ==
    IF model = "User"
    THEN UNION { { kw \in [K -> {"u1", "u2", "e1", "", NoneStr}] :
                     /\ "username" \in K => kw["username"] \in {"u1", "u2", ""}
                     /\ "email" \in K => kw["email"] \in {"e1", NoneStr} } :
                 K \in SUBSET {"username", "email"} }
    ELSE UNION { [K -> UserIds] : K \in SUBSET {"user_id"} }

IdsOf(model) == IF model = "User" THEN UserIds ELSE ConversationIds

\* the row r after UPDATE ... SET update_data
Changed(r, update_data) ==
    [c \in DOMAIN r |-> IF c \in DOMAIN update_data THEN update_data[c] ELSE r[c]]

\* conversations.user_id references users.id (models/conversation.py)
Dangling(c) == \A u \in users : u.id # c.user_id

\* the error of an except clause of update or delete: raise ... from e
FailedTo(e, raised) ==
    [e EXCEPT !.cause = raised, !.context = raised]

\* BaseRepository.update.  fault: the statement fails for a reason that is
\* no constraint violation.
update(model, entity_id, kwargs, fault) ==
    /\ ncalls < MaxCalls
    /\ ncalls' = ncalls + 1
    /\ LET arg == [model |-> model, id |-> entity_id, kwargs |-> kwargs]
           keys == { k \in DOMAIN kwargs : kwargs[k] # NoneStr /\ kwargs[k] # "" }
           update_data == [k \in keys |-> kwargs[k]]
           rows == Table(model)
           target == { r \in rows : r.id = entity_id }
           after == (rows \ target) \cup { Changed(r, update_data) : r \in target }
           unique == /\ model = "User"
                     /\ \E r \in target, q \in rows \ target :
                           Clash(Changed(r, update_data), q)
           foreign == /\ model = "Conversation"
                      /\ \E r \in target : Dangling(Changed(r, update_data))
       IN  IF keys = {}
           THEN /\ ~fault
                /\ ret' = Called("update", arg, get_by_id(model, entity_id), Returned, "no_data")
                /\ UNCHANGED << users, conversations, messages, nfaults >>
           ELSE IF fault
           THEN /\ nfaults < MaxFaults
                /\ nfaults' = nfaults + 1
                /\ Rollback
                /\ ret' = Called("update", arg, "raised",
                             FailedTo(RepositoryError(
                                          Words(<< "Failed", "to", "update", model >>),
                                          NoneList, NoneStr, NoneStr),
                                      "OperationalError"),
                             "fault")
           ELSE IF unique \/ foreign
           THEN /\ Rollback
                /\ ret' = Called("update", arg, "raised",
                             FailedTo(DuplicateError(
                                          Words(<< "Update", "would", "violate", "unique",
                                                   "constraints" >>),
                                          NoneList, NoneStr),
                                      "IntegrityError"),
                             IF unique THEN "unique" ELSE "foreign_key")
                /\ UNCHANGED nfaults
           ELSE IF target = {}
           THEN /\ ret' = Called("update", arg, NoneStr, Returned, "not_found")
                /\ UNCHANGED << users, conversations, messages, nfaults >>
           ELSE /\ SetTable(model, after)
                /\ ret' = Called("update", arg,
                             Changed(CHOOSE r \in target : TRUE, update_data),
                             Returned, "ok")
                /\ UNCHANGED nfaults
    /\ UNCHANGED << saved, used >>

\* conversations.user_id references users.id and messages.conversation_id
\* references conversations.id, both without ON DELETE (models/conversation.py,
\* models/message.py): the store rejects the delete of a row still referenced
Referenced(model, entity_id) ==
    IF model = "User"
    THEN /\ exists("User", entity_id)
         /\ \E c \in conversations : c.user_id = entity_id
    ELSE /\ exists("Conversation", entity_id)
         /\ \E m \in messages : m.conversation_id = entity_id

\* BaseRepository.delete: a DELETE statement by id, which the store rejects
\* for a row that other rows reference
delete(model, entity_id, fault) ==
    /\ ncalls < MaxCalls
    /\ ncalls' = ncalls + 1
    /\ LET arg == [model |-> model, id |-> entity_id]
           rows == Table(model)
           target == { r \in rows : r.id = entity_id }
           referenced == Referenced(model, entity_id)
       IN  IF fault \/ referenced
           THEN /\ fault => nfaults < MaxFaults
                /\ nfaults' = IF fault THEN nfaults + 1 ELSE nfaults
                /\ Rollback
                /\ ret' = Called("delete", arg, "raised",
                             FailedTo(RepositoryError(
                                          Words(<< "Failed", "to", "delete", model >>),
                                          NoneList, NoneStr, NoneStr),
                                      IF fault THEN "OperationalError" ELSE "IntegrityError"),
                             IF fault THEN "fault" ELSE "foreign_key")
           ELSE IF target # {}
           THEN /\ SetTable(model, rows \ target)
                /\ ret' = Called("delete", arg, TRUE, Returned, "ok")
                /\ UNCHANGED nfaults
           ELSE /\ ret' = Called("delete", arg, FALSE, Returned, "not_found")
                /\ UNCHANGED << users, conversations, messages, nfaults >>
    /\ UNCHANGED << saved, used >>

\* the caller commits the session
session_commit ==
    /\ saved # [users |-> users, conversations |-> conversations, messages |-> messages]
    /\ saved' = [users |-> users, conversations |-> conversations, messages |-> messages]
    /\ UNCHANGED << users, conversations, messages, used, ret, ncalls, nfaults >>

\* ------ conversation_repository.py and message_repository.py

\* a store that earlier sessions filled and committed: two users, and any
\* conversations of theirs, one of which may hold a message
StoredUsers ==
    { [id |-> "i1", username |-> "u1", email |-> "e1"],
      [id |-> "i2", username |-> "u2", email |-> "e2"] }

StoredConversations ==
    UNION { { { [id |-> c, user_id |-> own[c]] : c \in C } : own \in [C -> UserIds] } :
            C \in SUBSET ConversationIds }

StoredMessages(convs) ==
    { {} } \cup { { [id |-> "m1", conversation_id |-> c.id] } : c \in convs }

InitConv ==
    /\ InitRepo
    /\ IdleMapper
    /\ IdleLog
    /\ users = StoredUsers
    /\ conversations \in StoredConversations
    /\ messages \in StoredMessages(conversations)
    /\ saved = [users |-> users, conversations |-> conversations, messages |-> messages]
    /\ used = { r.id : r \in users \cup conversations \cup messages }
    /\ ret = NoCall
    /\ ncalls = 0
    /\ nfaults = 0

\* an except clause that wraps what it caught: raise RepositoryError(...) from e
Wrapped(words, caught) ==
    FailedTo(RepositoryError(Words(words), NoneList, NoneStr, NoneStr), caught)

\* MessageRepository.create_message.  fault: the statement that fails for a
\* reason that is no constraint violation ("insert": the flush in the
\* guarded block of create, "touch": the UPDATE of the conversation), or
\* "none".  Every exception raised in the try block, the NotFoundError of
\* step 1 included, reaches 'except Exception'.
create_message(conversation_id, fault) ==
    /\ ncalls < MaxCalls
    /\ ncalls' = ncalls + 1
    /\ fault # "none" => nfaults < MaxFaults
    /\ nfaults' = IF fault # "none" /\ exists("Conversation", conversation_id)
                  THEN nfaults + 1 ELSE nfaults
    /\ IF ~exists("Conversation", conversation_id)
       THEN /\ fault = "none"
            /\ ret' = Called("create_message", conversation_id, "raised",
                         Wrapped(<< "Failed", "to", "create", "message" >>, "NotFoundError"),
                         "not_found")
            /\ UNCHANGED << users, conversations, messages, used >>
       ELSE IF fault = "insert"
       THEN /\ Rollback
            /\ ret' = Called("create_message", conversation_id, "raised",
                         Wrapped(<< "Failed", "to", "create", "message" >>, "RepositoryError"),
                         "fault")
            /\ UNCHANGED used
       ELSE \E id \in MessageIds \ used :
               /\ messages' = messages \cup { [id |-> id, conversation_id |-> conversation_id] }
               /\ used' = used \cup {id}
               /\ UNCHANGED << users, conversations >>
               /\ IF fault = "touch"
                  THEN ret' = Called("create_message", conversation_id, "raised",
                                 Wrapped(<< "Failed", "to", "create", "message" >>,
                                         "OperationalError"),
                                 "fault")
                  ELSE ret' = Called("create_message", conversation_id, id, Returned, "ok")
    /\ UNCHANGED saved

\* scalar_one_or_none() without a row: None
NoConversation == [id |-> NoneStr, user_id |-> NoneStr]

\* ConversationRepository.get_user_conversation: the conversation with this
\* id and this owner
MutGetConversationOfAnyUser(user_id, conversation_id) ==
    IF exists("Conversation", conversation_id)
    THEN get_by_id("Conversation", conversation_id)
    ELSE NoConversation

\* ConversationRepository.get_user_conversation: the conversation with this
\* id and this owner, or None
get_user_conversation(user_id, conversation_id) ==
    IF \E c \in conversations : c.id = conversation_id /\ c.user_id = user_id
    THEN CHOOSE c \in conversations : c.id = conversation_id /\ c.user_id = user_id
    ELSE NoConversation

\* ConversationRepository.delete_user_conversation.  fault: "select" (the
\* query of get_user_conversation fails), "delete" (the DELETE fails for a
\* reason that is no constraint violation), or "none".
delete_user_conversation(user_id, conversation_id, fault) ==
    /\ ncalls < MaxCalls
    /\ ncalls' = ncalls + 1
    /\ LET arg == [user_id |-> user_id, ids |-> {conversation_id}]
           conversation == get_user_conversation(user_id, conversation_id)
       IN  IF fault = "select"
           THEN /\ nfaults < MaxFaults
                /\ nfaults' = nfaults + 1
                /\ ret' = Called("delete_user_conversation", arg, "raised",
                             Wrapped(<< "Failed", "to", "delete", "user", "conversation" >>,
                                     "RepositoryError"),
                             "fault_select")
                /\ UNCHANGED << users, conversations, messages >>
           ELSE IF conversation = NoConversation
           THEN /\ fault = "none"
                /\ ret' = Called("delete_user_conversation", arg, FALSE, Returned, "not_owned")
                /\ UNCHANGED << users, conversations, messages, nfaults >>
           ELSE IF fault = "delete" \/ Referenced("Conversation", conversation_id)
           THEN /\ fault = "delete" => nfaults < MaxFaults
                /\ nfaults' = IF fault = "delete" THEN nfaults + 1 ELSE nfaults
                /\ Rollback
                /\ ret' = Called("delete_user_conversation", arg, "raised",
                             Wrapped(<< "Failed", "to", "delete", "user", "conversation" >>,
                                     "RepositoryError"),
                             IF fault = "delete" THEN "fault" ELSE "foreign_key")
           ELSE /\ conversations' = { c \in conversations : c.id # conversation_id }
                /\ ret' = Called("delete_user_conversation", arg, TRUE, Returned, "ok")
                /\ UNCHANGED << users, messages, nfaults >>
    /\ UNCHANGED << saved, used >>

\* ConversationRepository.bulk_delete_conversations.  fault: "select" (the
\* ownership query fails), "delete" (the DELETE fails for a reason that is
\* no constraint violation), or "none".
bulk_delete_conversations(user_id, conversation_ids, fault) ==
    /\ ncalls < MaxCalls
    /\ ncalls' = ncalls + 1
    /\ LET arg == [user_id |-> user_id, ids |-> conversation_ids]
           valid_ids == { c.id : c \in { x \in conversations :
                                           /\ x.user_id = user_id
                                           /\ x.id \in conversation_ids } }
           failed(cause, why) ==
               /\ Rollback
               /\ ret' = Called("bulk_delete_conversations", arg, "raised",
                            Wrapped(<< "Failed", "to", "bulk", "delete", "conversations" >>,
                                    cause),
                            why)
       IN  IF conversation_ids = {}
           THEN /\ fault = "none"
                /\ ret' = Called("bulk_delete_conversations", arg, 0, Returned, "no_ids")
                /\ UNCHANGED << users, conversations, messages, nfaults >>
           ELSE IF fault = "select"
           THEN /\ nfaults < MaxFaults
                /\ nfaults' = nfaults + 1
                /\ failed("OperationalError", "fault_select")
           ELSE IF valid_ids = {}
           THEN /\ fault = "none"
                /\ ret' = Called("bulk_delete_conversations", arg, 0, Returned, "none_owned")
                /\ UNCHANGED << users, conversations, messages, nfaults >>
           ELSE IF fault = "delete"
           THEN /\ nfaults < MaxFaults
                /\ nfaults' = nfaults + 1
                /\ failed("OperationalError", "fault")
           ELSE IF \E id \in valid_ids : Referenced("Conversation", id)
           THEN /\ failed("IntegrityError", "foreign_key")
                /\ UNCHANGED nfaults
           ELSE /\ conversations' = { c \in conversations : c.id \notin valid_ids }
                /\ ret' = Called("bulk_delete_conversations", arg,
                             Cardinality(valid_ids), Returned, "ok")
                /\ UNCHANGED << users, messages, nfaults >>
    /\ UNCHANGED << saved, used >>

\* ------------------------------------ app/core/logging/builder.py

\* how many records a producer logs, and the size of the bounded queue
MaxEmits == 2
LOG_QUEUE_MAX_SIZE == 1

\* a record that prepare() can format, and one whose arguments do not fit
\* its format string
RecordKinds == {"formattable", "unformattable"}

\* NonBlockingQueueHandler.emit up to the end of prepare().  prepare()
\* formats the record; the exception of a record that cannot be formatted
\* is no queue.Full, passes the except clause and reaches the producer.
emit_prepare(p, kind) ==
    /\ qpc[p] = "idle"
    /\ qemits[p] < MaxEmits
    /\ qemits' = [qemits EXCEPT ![p] = @ + 1]
    /\ IF kind = "unformattable"
       THEN qout' = [qout EXCEPT ![p] = "raised"] /\ UNCHANGED qpc
       ELSE qpc' = [qpc EXCEPT ![p] = "put"] /\ UNCHANGED qout
    /\ UNCHANGED << queue, dropped_logs_count, lock, ndropped >>

\* self.queue.put_nowait(record): enqueues, or raises queue.Full at once
emit_put(p) ==
    /\ qpc[p] = "put"
    /\ IF Len(queue) < LOG_QUEUE_MAX_SIZE
       THEN /\ queue' = Append(queue, p)
            /\ qpc' = [qpc EXCEPT ![p] = "idle"]
            /\ qout' = [qout EXCEPT ![p] = "enqueued"]
            /\ UNCHANGED ndropped
       ELSE /\ qpc' = [qpc EXCEPT ![p] = "full"]
            /\ ndropped' = ndropped + 1
            /\ UNCHANGED << queue, qout >>
    /\ UNCHANGED << dropped_logs_count, lock, qemits >>

\* except queue.Full: with _DROPPED_LOGS_LOCK
emit_lock(p) ==
    /\ qpc[p] = "full"
    /\ lock = NoneStr
    /\ lock' = p
    /\ qpc' = [qpc EXCEPT ![p] = "locked"]
    /\ UNCHANGED << queue, dropped_logs_count, qout, qemits, ndropped >>

\* _DROPPED_LOGS_COUNT += 1 and the end of the with block
emit_count(p) ==
    /\ qpc[p] = "locked"
    /\ lock = p
    /\ dropped_logs_count' = dropped_logs_count + 1
    /\ lock' = NoneStr
    /\ qpc' = [qpc EXCEPT ![p] = "handleError"]
    /\ UNCHANGED << queue, qout, qemits, ndropped >>

\* self.handleError(record) in its own try block, then return: an
\* exception of handleError is swallowed
emit_handleError(p, raises) ==
    /\ qpc[p] = "handleError"
    /\ qpc' = [qpc EXCEPT ![p] = "idle"]
    /\ qout' = [qout EXCEPT ![p] = IF raises THEN "dropped_quietly" ELSE "dropped"]
    /\ UNCHANGED << queue, dropped_logs_count, lock, qemits, ndropped >>

\* the QueueListener thread takes a record from the queue
listener_dequeue ==
    /\ queue # << >>
    /\ queue' = Tail(queue)
    /\ UNCHANGED << dropped_logs_count, lock, qpc, qout, qemits, ndropped >>

\* get_queue_stats(), called when nobody holds the lock
get_queue_stats == [dropped_logs |-> dropped_logs_count, queue_present |-> TRUE]

\* ------------- app/core/logging/middleware.py and filters.py

\* how many records are logged in the context of a request
MaxLogs == 1

\* the X-Request-ID a request comes with: none, empty, or a value
Headers == {NoneStr, "", "abc"}

\* str(uuid.uuid4()): a fresh value for each request
uuid4(r) == IF r = "r1" THEN "uuid-1" ELSE "uuid-2"

\* requests that wait for dispatch, each in a context of its own (a task
\* of the server) in which _request_id_ctx is unset or set by an outer layer
InitMiddleware ==
    /\ InitRepo
    /\ IdleMapper
    /\ IdleCrud
    /\ IdleQueue
    /\ ctx \in [Requests -> {NoneStr, "outer"}]
    /\ AwaitingRequests

\* RequestIDMiddleware.dispatch up to call_next
dispatch_begin(r, header) ==
    /\ mpc[r] = "new"
    /\ hdr' = [hdr EXCEPT ![r] = header]
    /\ rid' = [rid EXCEPT ![r] = IF Truthy(header) THEN header ELSE uuid4(r)]
    /\ token' = [token EXCEPT ![r] = ctx[r]]
    /\ ctx' = [ctx EXCEPT ![r] = rid'[r]]
    /\ mpc' = [mpc EXCEPT ![r] = "handling"]
    /\ UNCHANGED << prior, records, resp >>

\* RequestIdFilter.filter: the request_id it leaves on a record
MutFilterIgnoresContext(extra, current) ==
    IF Truthy(extra) THEN extra ELSE "-"

\* RequestIdFilter.filter: the request_id it leaves on a record that came
\* with the attribute extra, in a context whose request id is current
RequestIdFilter(extra, current) ==
    IF Truthy(extra) THEN extra
    ELSE IF Truthy(current) THEN current
    ELSE "-"

\* code handling request r logs a record in its context, with or without
\* extra={"request_id": ...}
log_record(r, extra) ==
    /\ mpc[r] = "handling"
    /\ Len(records[r]) < MaxLogs
    /\ records' = [records EXCEPT ![r] =
                      Append(@, [extra |-> extra,
                                 request_id |-> RequestIdFilter(extra, ctx[r])])]
    /\ UNCHANGED << ctx, prior, mpc, hdr, rid, token, resp >>

\* call_next returns a response or raises; the header of the response,
\* and reset_request_id(token) in the finally clause
dispatch_end(r, raised) ==
    /\ mpc[r] = "handling"
    /\ resp' = [resp EXCEPT ![r] = IF raised THEN "<exception>" ELSE rid[r]]
    /\ ctx' = [ctx EXCEPT ![r] = token[r]]
    /\ mpc' = [mpc EXCEPT ![r] = "ended"]
    /\ UNCHANGED << prior, hdr, rid, token, records >>

\* ---------------------------------------------------- specifications

Next ==
    \/ \E s \in Sessions, k \in Rows : create_precheck(s, k) /\ UNCHANGED << mapperVars, crudVars, logVars >>
    \/ \E s \in Sessions, k \in Rows : create_precheck_poisoned(s, k) /\ UNCHANGED << mapperVars, crudVars, logVars >>
    \/ \E s \in Sessions : flush_ok(s) /\ UNCHANGED << mapperVars, crudVars, logVars >>
    \/ \E s \in Sessions, v \in UniqueViolationsShort :
          flush_unique_violation(s, v) /\ UNCHANGED << mapperVars, crudVars, logVars >>
    \/ \E s \in Sessions, x \in FlushFaults, failed \in BOOLEAN :
          flush_fault(s, x, failed) /\ UNCHANGED << mapperVars, crudVars, logVars >>
    \/ \E s \in Sessions, x \in Interruptions, flushed \in BOOLEAN :
          block_interrupted(s, x, flushed) /\ UNCHANGED << mapperVars, crudVars, logVars >>
    \/ \E s \in Sessions, rb \in {"ok", "failed", "failed_reset"} :
          db_error_handler(s, rb) /\ UNCHANGED << mapperVars, crudVars, logVars >>
    \/ \E s \in Sessions : commit(s) /\ UNCHANGED << mapperVars, crudVars, logVars >>

\* every failure of the store and of the session included
Spec == Init /\ [][Next]_vars

\* two writers on a store that enforces its constraints and a session
\* whose rollback works
NextRace ==
    \/ \E s \in Sessions, k \in Rows : create_precheck(s, k) /\ UNCHANGED << mapperVars, crudVars, logVars >>
    \/ \E s \in Sessions : flush_ok(s) /\ UNCHANGED << mapperVars, crudVars, logVars >>
    \/ \E s \in Sessions, v \in UniqueViolations :
          flush_unique_violation(s, v) /\ UNCHANGED << mapperVars, crudVars, logVars >>
    \/ \E s \in Sessions : db_error_handler(s, "ok") /\ UNCHANGED << mapperVars, crudVars, logVars >>
    \/ \E s \in Sessions : commit(s) /\ UNCHANGED << mapperVars, crudVars, logVars >>

SpecRace == Init /\ [][NextRace]_vars

\* one repository, the only writer of the store, and its caller
NextCrud ==
    \/ \E kwargs \in CreateKwargs, fault \in BOOLEAN :
          create(kwargs, fault) /\ UNCHANGED << repoVars, mapperVars, logVars >>
    \/ \E user_id \in UserIds :
          create_conversation(user_id) /\ UNCHANGED << repoVars, mapperVars, logVars >>
    \/ \E model \in {"User", "Conversation"}, fault \in BOOLEAN :
          \E entity_id \in IdsOf(model), kwargs \in UpdateKwargs(model) :
             update(model, entity_id, kwargs, fault) /\ UNCHANGED << repoVars, mapperVars, logVars >>
    \/ \E model \in {"User", "Conversation"}, fault \in BOOLEAN :
          \E entity_id \in IdsOf(model) :
             delete(model, entity_id, fault) /\ UNCHANGED << repoVars, mapperVars, logVars >>
    \/ session_commit /\ UNCHANGED << repoVars, mapperVars, logVars >>

SpecCrud == Init /\ [][NextCrud]_vars

\* conversation and message repositories on one session over a filled store
NextConv ==
    \/ \E user_id \in UserIds :
          create_conversation(user_id) /\ UNCHANGED << repoVars, mapperVars, logVars >>
    \/ \E conversation_id \in ConversationIds, fault \in {"none", "insert", "touch"} :
          create_message(conversation_id, fault) /\ UNCHANGED << repoVars, mapperVars, logVars >>
    \/ \E user_id \in UserIds, conversation_id \in ConversationIds :
          \E fault \in {"none", "select", "delete"} :
             delete_user_conversation(user_id, conversation_id, fault)
                /\ UNCHANGED << repoVars, mapperVars, logVars >>
    \/ \E user_id \in UserIds, conversation_ids \in SUBSET ConversationIds :
          \E fault \in {"none", "select", "delete"} :
             bulk_delete_conversations(user_id, conversation_ids, fault)
                /\ UNCHANGED << repoVars, mapperVars, logVars >>
    \/ session_commit /\ UNCHANGED << repoVars, mapperVars, logVars >>

SpecConv == InitConv /\ [][NextConv]_vars

\* producers that log through a NonBlockingQueueHandler, and the listener
NextQueue ==
    \/ \E p \in Producers, kind \in RecordKinds :
          emit_prepare(p, kind) /\ UNCHANGED << repoVars, mapperVars, crudVars, mwVars >>
    \/ \E p \in Producers : emit_put(p) /\ UNCHANGED << repoVars, mapperVars, crudVars, mwVars >>
    \/ \E p \in Producers : emit_lock(p) /\ UNCHANGED << repoVars, mapperVars, crudVars, mwVars >>
    \/ \E p \in Producers : emit_count(p) /\ UNCHANGED << repoVars, mapperVars, crudVars, mwVars >>
    \/ \E p \in Producers, raises \in BOOLEAN :
          emit_handleError(p, raises) /\ UNCHANGED << repoVars, mapperVars, crudVars, mwVars >>
    \/ listener_dequeue /\ UNCHANGED << repoVars, mapperVars, crudVars, mwVars >>

SpecQueue == Init /\ [][NextQueue]_vars

\* concurrent requests through RequestIDMiddleware
NextMiddleware ==
    \/ \E r \in Requests, header \in Headers :
          dispatch_begin(r, header) /\ UNCHANGED << repoVars, mapperVars, crudVars, queueVars >>
    \/ \E r \in Requests, extra \in {NoneStr, "own-id"} :
          log_record(r, extra) /\ UNCHANGED << repoVars, mapperVars, crudVars, queueVars >>
    \/ \E r \in Requests, raised \in BOOLEAN :
          dispatch_end(r, raised) /\ UNCHANGED << repoVars, mapperVars, crudVars, queueVars >>

SpecMiddleware == InitMiddleware /\ [][NextMiddleware]_vars

\* classifier, extractor, mapper and error handler on every input
NextMapper == map_integrity \/ respond

SpecMapper == InitMapper /\ [][NextMapper]_vars


\* ------------------------------------------------------------ claims

GuardExits ==
    {"integrity_rb_ok", "integrity_rb_failed", "unexpected_rb_ok", "unexpected_rb_failed"}

IntegrityExits == {"integrity_rb_ok", "integrity_rb_failed"}

\* C1: whatever the guarded block raised, an IntegrityError or another
\* Exception, the exception that leaves db_error_handler is a
\* RepositoryError or one of its subclasses.
C1_GuardRaisesDomainErrors ==
    \A s \in Sessions :
        how[s] \in GuardExits => last[s].type \in RepositoryErrorTypes

C1_Witness ==
    \E s, t \in Sessions :
        /\ how[s] \in IntegrityExits
        /\ inblock[s].type = "IntegrityError"
        /\ last[s].type = "DuplicateError"
        /\ how[t] = "unexpected_rb_ok"
        /\ inblock[t].type = "OperationalError"
        /\ last[t].type = "RepositoryError"

\* C2: on both failure paths the guard attempts one rollback and raises
\* after it, never before; and when the rollback fails the exception
\* raised is still the domain error of the original failure, with that
\* failure as its context, not the error of the rollback.
C2_RollbackThenRaise ==
    \A s \in Sessions :
        /\ pc[s] = "handler" =>
              \A i \in 1..Len(trace[s]) :
                  trace[s][i] \notin {"raise", "rollback", "rollback_failed"}
        /\ how[s] \in GuardExits =>
              LET n == Len(trace[s])
              IN  /\ n >= 2
                  /\ trace[s][n] = "raise"
                  /\ trace[s][n - 1] \in {"rollback", "rollback_failed"}
                  /\ \A i \in 1..(n - 2) :
                        trace[s][i] \notin {"raise", "rollback", "rollback_failed"}
                  /\ (trace[s][n - 1] = "rollback_failed")
                        <=> (how[s] \in {"integrity_rb_failed", "unexpected_rb_failed"})
                  /\ last[s].type \in RepositoryErrorTypes
                  /\ last[s].context = inblock[s].type
                  /\ how[s] \in IntegrityExits <=> inblock[s].type = "IntegrityError"
                  /\ (how[s] \notin IntegrityExits) =>
                        last[s].type = "RepositoryError" /\ last[s].cause = inblock[s].type

C2_Witness ==
    \E s \in Sessions :
        /\ how[s] = "integrity_rb_failed"
        /\ trace[s][Len(trace[s]) - 1] = "rollback_failed"
        /\ last[s].type = "DuplicateError"
        /\ last[s].context = "IntegrityError"

Live == committed \cup UNION { pending[s] : s \in Sessions }

C5_SuccessLeavesCommitToCaller ==
    [][ /\ \A s \in Sessions :
              (pc[s] = "guard" /\ how'[s] = "ok") =>
                  /\ committed' = committed
                  /\ pending'[s] = pending[s] \cup {cur[s]}
                  /\ sess'[s] = sess[s]
                  /\ \A i \in 1..Len(trace'[s]) :
                        trace'[s][i] \notin {"commit", "rollback", "rollback_failed"}
        /\ committed' # committed => \E s \in Sessions : commit(s)
      ]_vars

C5_Witness ==
    \E s \in Sessions :
        /\ how[s] = "ok"
        /\ pc[s] = "idle"
        /\ pending[s] # {}
        /\ pending[s] \cap committed = {}
        /\ trace[s] = << "select", "add", "flush", "refresh" >>

\* the code table of the classifier, as the specification states it
CodeCategory(pgcode) ==
    CASE pgcode = "23505" -> "UniqueConstraintError"
      [] pgcode = "23502" -> "NotNullConstraintError"
      [] pgcode = "23503" -> "ForeignKeyConstraintError"
      [] pgcode = "23514" -> "CheckConstraintError"
      [] OTHER -> "UnknownIntegrityError"

\* the category keyword matching gives a text
TextCategory(msg) == _classify_from_generic_message(msg).cls

Mapped == violation # NoViolation /\ err # NoError

\* C6: a violation with a diagnostic code whose text keyword matching
\* would put in another category is classified by its code, never by its
\* text.
C6_CodeBeatsText ==
    (/\ Mapped
     /\ violation.hasOrig
     /\ Truthy(violation.pgcode)
     /\ TextCategory(violation.msg) # CodeCategory(violation.pgcode))
    => /\ classified.cls = CodeCategory(violation.pgcode)
       /\ classified.cls # TextCategory(violation.msg)

C6_Witness ==
    /\ Mapped
    /\ violation.pgcode = "23514"
    /\ violation.msg = MsgSqliteUnique
    /\ classified.cls = "CheckConstraintError"

\* C7, as claimed: a violation whose code is not in the code table, or
\* that has no code and a text no keyword list matches, is classified
\* Unknown with the constraint name of its diagnostics when it has one.
C7_UnknownKeepsConstraintName ==
    (/\ Mapped
     /\ violation.hasOrig
     /\ \/ Truthy(violation.pgcode) /\ PGCODE_EXCEPTION_MAP(violation.pgcode) = NoneStr
        \/ /\ ~Truthy(violation.pgcode)
           /\ \A kws \in {UniqueKeywords, NotNullKeywords, ForeignKeyKeywords, CheckKeywords} :
                 ~_match_any(Lower(violation.msg), kws))
    => /\ classified.cls = "UnknownIntegrityError"
       /\ classified.constraint = violation.constraint_name

\* the wording of a DuplicateError of the mapper for entity e
AlreadyExists(e) == << e, " " >> \o Words(<< "already", "exists" >>)

\* C8: a violation classified Unique, by code or by keywords, leaves the
\* guard as DuplicateError with code 'duplicate' and status 409; its
\* fields are the extracted columns when there are any, and its message
\* names the columns, else the constraint, else the unique constraint in
\* general.
C8_UniqueBecomesDuplicate ==
    (Mapped /\ classified.cls = "UniqueConstraintError")
    => /\ err.type = "DuplicateError"
       /\ err.error_code = "duplicate"
       /\ http_status(err) = 409
       /\ response # NoResponse =>
             response.status = 409 /\ response.payload["code"] = << "duplicate" >>
       /\ err.fields = columns
       /\ IF columns # << >>
          THEN err.message =
                  AlreadyExists(ModelPart(model_name))
                     \o << " ", "for", " ", "field", "(", "s", ")", ":", " " >>
                     \o CommaJoin(columns)
          ELSE IF classified.constraint # NoneStr
          THEN err.message =
                  AlreadyExists(ModelPart(model_name))
                     \o << " ", "(", "constraint", ":", " ", classified.constraint, ")" >>
          ELSE err.message =
                  AlreadyExists(ModelPart(model_name))
                     \o << " ", "(", "unique", " ", "constraint", ")" >>

C8_Witness ==
    /\ Mapped
    /\ violation.pgcode = "23505"
    /\ violation.constraint_name = "users_email_key"
    /\ violation.msg = MsgUnmatched
    /\ model_name = "User"
    /\ columns = << >>
    /\ err.type = "DuplicateError"
    /\ response # NoResponse
    /\ response.status = 409

\* the table of section 3 of the specification
StatusTable(code) ==
    CASE code = "duplicate" -> 409
      [] code = "invalid_field" -> 422
      [] code = "not_found" -> 404
      [] code = "invalid_input" -> 422
      [] OTHER -> 400

\* C9: the status of every domain error is the table applied to its code,
\* 400 for an absent or any other code; the errors mapped from NotNull,
\* ForeignKey, Check and Unknown violations have status 400.
C9_StatusTable ==
    response # NoResponse =>
        /\ response.status = StatusTable(err.error_code)
        /\ http_status(err) = response.status
        /\ classified.cls \in {"NotNullConstraintError", "ForeignKeyConstraintError",
                               "CheckConstraintError", "UnknownIntegrityError"}
              => response.status = 400

C9_Witness ==
    /\ response # NoResponse
    /\ err.error_code = "teapot"
    /\ response.status = 400

\* str(exc.orig), or str(exc) without orig: the raw driver message
Raw(exc) == IF exc.hasOrig THEN exc.msg ELSE StrExc(exc)

\* the payload for the violation with raw message m in place of its own
PayloadWithMessage(m) ==
    to_payload(GuardError(BlockExc("IntegrityError", [violation EXCEPT !.msg = m]),
                          model_name))

\* violations of the same variant that differ only in the raw message
\* give the same payload
SamePayloadForEveryMessage ==
    \A m \in Messages :
        (violation.hasOrig
           /\ classify_integrity_error([violation EXCEPT !.msg = m]).cls = classified.cls)
        => PayloadWithMessage(m) = to_payload(err)

\* the wording of the details for Check and Unknown, for entity e
FixedWording(cls, e) ==
    IF cls = "CheckConstraintError"
    THEN Words(<< e, "business", "rule", "violated" >>)
            \o << " ", "(", "check", " ", "constraint", ")", "." >>
    ELSE Words(<< e, "database", "integrity", "error" >>) \o << "." >>

C11_PayloadKeys ==
    response # NoResponse =>
        LET keys == DOMAIN response.payload
        IN  /\ "detail" \in keys
            /\ response.payload["detail"] = err.message
            /\ "code" \in keys <=> err.error_code \notin {NoneStr, ""}
            /\ "code" \in keys => response.payload["code"] = << err.error_code >>
            /\ "fields" \in keys <=> Len(err.fields) > 0
            /\ "fields" \in keys => response.payload["fields"] = err.fields
            /\ keys \subseteq {"detail", "code", "fields"}
            /\ "constraint" \notin keys

C11_Witness ==
    /\ response # NoResponse
    /\ err.constraint = "users_email_key"
    /\ err.error_code = "duplicate"
    /\ err.fields = << << "email" >> >>
    /\ DOMAIN response.payload = {"detail", "code", "fields"}


\* the domain error the guard raises for violation v and the entity at hand
ErrorFor(v) == GuardError(BlockExc("IntegrityError", v), model_name)

\* C12, as claimed: violations of two different variants are mapped to
\* errors that differ in type or in code.
C12_Original ==
    Mapped =>
        \A v \in Violations :
            classify_integrity_error(v).cls # classified.cls
            => \/ ErrorFor(v).type # err.type
               \/ ErrorFor(v).error_code # err.error_code

\* C12, amended: a Unique violation is mapped to DuplicateError with code
\* 'duplicate'; NotNull, ForeignKey, Check and Unknown violations are all
\* mapped to plain RepositoryError without a code, and the errors of two
\* different variants differ in their message.
C12_OnlyDuplicateHasItsOwnKind ==
    Mapped =>
        /\ IF classified.cls = "UniqueConstraintError"
           THEN err.type = "DuplicateError" /\ err.error_code = "duplicate"
           ELSE err.type = "RepositoryError" /\ err.error_code = NoneStr
        /\ \A v \in Violations :
              classify_integrity_error(v).cls # classified.cls
              => ErrorFor(v).message # err.message

C12_Witness ==
    /\ Mapped
    /\ classified.cls = "NotNullConstraintError"
    /\ err.type = "RepositoryError"
    /\ err.error_code = NoneStr
    /\ \E v \in Violations :
          /\ classify_integrity_error(v).cls = "CheckConstraintError"
          /\ ErrorFor(v).type = err.type
          /\ ErrorFor(v).error_code = err.error_code


\* C13, as claimed: whatever the variant, the domain error the guard raises
\* for an integrity violation has that violation as its explicit cause
\* (__cause__).
C13_ExplicitCause ==
    Mapped => err.cause = "IntegrityError"


\* the events of the mapper's own branch among those emitted
BranchEvents == SelectSeq(emitted, LAMBDA e : e.logger = "mapper")

\* an event with structured context: extra names at least the model
Structured(e) == "model" \in DOMAIN e.extra

\* C14, as claimed: the branch taken emits a structured event, at info
\* level for Unique, NotNull and ForeignKey and at warning level for Check
\* and Unknown.
C14_Original ==
    Mapped =>
        \E i \in 1..Len(BranchEvents) :
            /\ Structured(BranchEvents[i])
            /\ BranchEvents[i].level =
                  (IF classified.cls \in {"UniqueConstraintError", "NotNullConstraintError",
                                          "ForeignKeyConstraintError"}
                   THEN "info" ELSE "warning")

\* C14, amended: the branch taken emits a structured event with the
\* error: one at info level for Unique, NotNull and ForeignKey; one at
\* debug level, holding the raw message, for Check; one at warning level
\* followed by one at debug level holding the raw message for Unknown.
C14_BranchLogLevels ==
    Mapped =>
        /\ BranchEvents # << >>
        /\ \A i \in 1..Len(BranchEvents) : Structured(BranchEvents[i])
        /\ CASE classified.cls \in {"UniqueConstraintError", "NotNullConstraintError",
                                     "ForeignKeyConstraintError"} ->
                   /\ Len(BranchEvents) = 1
                   /\ BranchEvents[1].level = "info"
                   /\ "raw" \notin DOMAIN BranchEvents[1].extra
             [] classified.cls = "CheckConstraintError" ->
                   /\ Len(BranchEvents) = 1
                   /\ BranchEvents[1].level = "debug"
                   /\ BranchEvents[1].extra.raw = Raw(violation)
             [] OTHER ->
                   /\ Len(BranchEvents) = 2
                   /\ BranchEvents[1].level = "warning"
                   /\ "raw" \notin DOMAIN BranchEvents[1].extra
                   /\ BranchEvents[2].level = "debug"
                   /\ BranchEvents[2].extra.raw = Raw(violation)

C14_Witness ==
    /\ Mapped
    /\ classified.cls = "CheckConstraintError"
    /\ Len(BranchEvents) = 1
    /\ BranchEvents[1].level = "debug"


\* C15, as claimed: for a violation without a code whose message no
\* keyword list matches, the classifier emits no event at warning level or
\* above, and no event above debug level holds the raw message.
C15_RawOnlyAtDebug ==
    (/\ Mapped
     /\ violation.hasOrig
     /\ ~Truthy(violation.pgcode)
     /\ TextCategory(violation.msg) = "UnknownIntegrityError")
    => /\ \A i \in 1..Len(emitted) :
             emitted[i].logger = "integrity_classifier"
             => LevelNo(emitted[i].level) < LevelNo("warning")
       /\ \A i \in 1..Len(emitted) :
             LevelNo(emitted[i].level) > LevelNo("debug")
             => /\ ~Contains(emitted[i].msg, violation.msg)
                /\ "raw" \notin DOMAIN emitted[i].extra


\* C16, as claimed: the constraint name of a classification is absent only
\* when the violation supplied none; a violation that carries one gives
\* it to the result on the code path and on the message path alike.
C16_ConstraintNameCarried ==
    (Mapped /\ violation.hasOrig)
    => /\ violation.constraint_name # NoneStr
             => classified.constraint = violation.constraint_name
       /\ classified.constraint = NoneStr => violation.constraint_name = NoneStr


\* the unique columns on which kwargs equals a row of view
EqualOn(view, kwargs) ==
    { c \in {"username", "email"} :
         c \in DOMAIN kwargs /\ \E r \in view : r[c] = kwargs[c] }

\* the keys of kwargs that name no attribute of User
UnknownKeys(kwargs) == DOMAIN kwargs \ UserAttrs

\* the required columns of User, in the order of the table, that kwargs
\* leaves out or sets to None
MissingOf(kwargs) ==
    SelectSeq(<< << "username" >>, << "email" >>, << "hashed_password" >> >>,
              LAMBDA f : f[1] \notin DOMAIN kwargs \/ kwargs[f[1]] = NoneStr)

\* a create raised DuplicateError for the columns on which it equals a row
\* and wrote nothing
RaisedDuplicate ==
    /\ ret.out = "raised"
    /\ ret.err.type = "DuplicateError"
    /\ ret.err.error_code = "duplicate"
    /\ ret.err.fields =
          SelectSeq(<< << "email" >>, << "username" >> >>,
                    LAMBDA f : f[1] \in EqualOn(ret.before.users, ret.arg))
    /\ users = ret.before.users
    /\ \A r, q \in users : r # q => r.username # q.username /\ r.email # q.email

\* C17, as claimed: every create whose values equal an existing row on a
\* unique column raises DuplicateError with code 'duplicate' and the sorted
\* conflicting columns as fields, and writes no second row.
C17_Original ==
    (ret.op = "create" /\ EqualOn(ret.before.users, ret.arg) # {}) => RaisedDuplicate

\* C17, amended: a create that names no unknown field and leaves out no
\* required column, and whose values equal an existing row on a unique
\* column, raises DuplicateError with code 'duplicate' and the sorted
\* conflicting columns as fields, and writes no second row.
C17_DuplicateAfterFieldChecks ==
    (/\ ret.op = "create"
     /\ UnknownKeys(ret.arg) = {}
     /\ MissingOf(ret.arg) = << >>
     /\ EqualOn(ret.before.users, ret.arg) # {})
    => RaisedDuplicate

C17_Witness ==
    /\ ret.op = "create"
    /\ ret.out = "raised"
    /\ ret.err.type = "DuplicateError"
    /\ ret.err.fields = << << "email" >>, << "username" >> >>
    /\ Cardinality(users) = 2

\* a create raised the error for missing required columns and wrote nothing
RaisedMissing ==
    /\ ret.out = "raised"
    /\ ret.err.type = "RepositoryError"
    /\ Contains(ret.err.message, Words(<< "Missing", "required", "field" >>))
    /\ ret.err.fields = MissingOf(ret.arg)
    /\ users = ret.before.users
    /\ ret.why = "missing_required"

\* C18, as claimed: every create with a required column absent or None
\* raises RepositoryError with 'Missing required field' in its message and
\* the missing required columns, in table order, as fields, and writes
\* nothing.
C18_Original ==
    (ret.op = "create" /\ MissingOf(ret.arg) # << >>) => RaisedMissing

\* C18, amended: a create that names no unknown field and has a required
\* column absent or None raises RepositoryError with 'Missing required
\* field' in its message and the missing required columns, in table order,
\* as fields, and writes nothing.
C18_MissingAfterUnknownCheck ==
    (/\ ret.op = "create"
     /\ UnknownKeys(ret.arg) = {}
     /\ MissingOf(ret.arg) # << >>)
    => RaisedMissing

C18_Witness ==
    /\ ret.op = "create"
    /\ ret.out = "raised"
    /\ ret.err.fields = << << "username" >>, << "hashed_password" >> >>
    /\ "username" \in DOMAIN ret.arg
    /\ ret.arg["username"] = NoneStr
    /\ "hashed_password" \notin DOMAIN ret.arg
    /\ users # {}

\* the last call raised
Raised == ret.err.type \notin {"none", "ok"}

\* C19, as claimed: unless the statement itself fails, delete returns True
\* when a row with the id existed before the call and False when none did,
\* and the row does not exist afterwards.
C19_DeleteTrueIffExisted ==
    (ret.op = "delete" /\ ret.why # "fault")
    => LET rows == IF ret.arg.model = "User" THEN ret.before.users
                   ELSE ret.before.conversations
       IN  /\ ~Raised
           /\ ret.out = (\E r \in rows : r.id = ret.arg.id)
           /\ ~exists(ret.arg.model, ret.arg.id)

\* C20, as claimed: an update that fails raises DuplicateError when a
\* unique constraint was violated and plain RepositoryError for every
\* other database error.
C20_UpdateErrorKinds ==
    (ret.op = "update" /\ Raised)
    => IF ret.why = "unique"
       THEN ret.err.type = "DuplicateError"
       ELSE ret.err.type = "RepositoryError"


\* C21, as claimed: create_message for a conversation that does not exist
\* raises NotFoundError, and it raises a plain RepositoryError only when a
\* statement failed in the store.
C21_CreateMessageErrorKinds ==
    ret.op = "create_message"
    => /\ ~(\E c \in ret.before.conversations : c.id = ret.arg)
          => ret.err.type = "NotFoundError"
       /\ ret.err.type = "RepositoryError" => ret.why = "fault"

\* the last call was one of the two deletes of a user's conversations
OwnerDelete == ret.op \in {"delete_user_conversation", "bulk_delete_conversations"}

\* the conversations, as they were before the call, that are among the
\* requested ids and belong to the given user
OwnedRequested ==
    { c \in ret.before.conversations :
         c.user_id = ret.arg.user_id /\ c.id \in ret.arg.ids }

OthersOf(convs) == { c \in convs : c.user_id # ret.arg.user_id }

\* what a delete that returned removed, and what it gave back
RemovedOnlyOwned ==
    /\ conversations = ret.before.conversations \ OwnedRequested
    /\ IF ret.op = "delete_user_conversation"
       THEN ret.out = (OwnedRequested # {})
       ELSE ret.out = Cardinality(OwnedRequested)

\* C22, as claimed: after delete_user_conversation or bulk_delete_conversations
\* only conversations of the given user are gone, the result is False or a
\* count that leaves the others out, and the conversations of other users
\* are what they were before the call.
C22_Original ==
    OwnerDelete
    => /\ ret.before.conversations \ conversations \subseteq OwnedRequested
       /\ OthersOf(conversations) = OthersOf(ret.before.conversations)
       /\ ~Raised => RemovedOnlyOwned

\* C22, amended: a delete_user_conversation or bulk_delete_conversations that
\* returns has removed exactly the requested conversations of the given
\* user, returns True exactly when there was one, or their number, and
\* leaves every other conversation as it was; one that raises leaves the
\* conversations as they were or, having rolled the session back, as they
\* were at the last commit.
C22_OnlyOwnedRemoved ==
    OwnerDelete
    => IF Raised
       THEN conversations \in {ret.before.conversations, saved.conversations}
       ELSE RemovedOnlyOwned

C22_Witness ==
    /\ ret.op = "bulk_delete_conversations"
    /\ ret.why = "ok"
    /\ ret.arg.ids = {"c1", "c2"}
    /\ ret.out = 1
    /\ \E c \in conversations : c.user_id # ret.arg.user_id /\ c.id \in ret.arg.ids


\* the last call was an update that the store rejected for a constraint
UpdateViolated == ret.op = "update" /\ ret.why \in {"unique", "foreign_key"}

\* the users the session had created and not committed before the last call
Uncommitted == { r \in ret.before.users : \A q \in saved.users : q.id # r.id }

ScanOrder ==
    << [keywords |-> UniqueKeywords, cls |-> "UniqueConstraintError"],
       [keywords |-> NotNullKeywords, cls |-> "NotNullConstraintError"],
       [keywords |-> ForeignKeyKeywords, cls |-> "ForeignKeyConstraintError"],
       [keywords |-> CheckKeywords, cls |-> "CheckConstraintError"] >>

\* the lists that have a keyword in the lower-cased text of the violation
Hits == { i \in 1..4 : \E kw \in ScanOrder[i].keywords : Contains(Lower(violation.msg), kw) }

\* the violation was classified by its text
ByText == Mapped /\ violation.hasOrig /\ ~Truthy(violation.pgcode)

\* C24: a violation classified by its text gets the variant of the first
\* list, in the order unique, not-null, foreign-key, check, that has a
\* keyword in the text, also when later lists have one too, and the unknown
\* variant when no list has one.
C24_FirstListDecides ==
    ByText
    => IF Hits = {}
       THEN classified.cls = "UnknownIntegrityError"
       ELSE classified.cls = ScanOrder[Min(Hits)].cls

C24_Witness ==
    /\ ByText
    /\ violation.msg = MsgCheckThenUnique
    /\ Hits = {1, 4}
    /\ classified.cls = "UniqueConstraintError"


\* the text the extractors read, and what each of them takes from it
ExtractorText == IF violation.hasOrig THEN violation.msg ELSE StrExc(violation)
FromPostgres == _extract_columns_postgres(ExtractorText)
FromSqlite == _extract_columns_sqlite(ExtractorText)
FromMysql == _extract_columns_mysql(ExtractorText)

\* C25: the columns are those of the Postgres-style extractor when it finds
\* any, else those of the SQLite-style extractor when it finds any, else
\* those of the MySQL-style extractor when it finds any, else None; and
\* with or without columns the mapper gives a domain error.
C25_FirstExtractorWins ==
    Mapped
    => /\ FromPostgres # << >> => columns = FromPostgres
       /\ (FromPostgres = << >> /\ FromSqlite # << >>) => columns = FromSqlite
       /\ (FromPostgres = << >> /\ FromSqlite = << >> /\ FromMysql # << >>)
             => columns = FromMysql
       /\ (FromPostgres = << >> /\ FromSqlite = << >> /\ FromMysql = << >>)
             => columns = NoneList
       /\ err.type \in RepositoryErrorTypes

C25_Witness ==
    /\ Mapped
    /\ violation.msg = MsgPgKeyAndSqlite
    /\ FromPostgres = << << "email" >> >>
    /\ FromSqlite = << << "username" >> >>
    /\ columns = << << "email" >> >>


\* C26, as claimed: no emit raises to its producer, and once every producer
\* is out of emit the counter that get_queue_stats reports is the number of
\* records the full queue refused.
C26_EmitNeverRaisesAndCounts ==
    /\ \A p \in Producers : qout[p] # "raised"
    /\ (\A p \in Producers : qpc[p] = "idle")
          => get_queue_stats.dropped_logs = ndropped

\* what the claim gives as the id of request r
ClaimedId(r) == IF hdr[r] # NoneStr THEN hdr[r] ELSE uuid4(r)

\* the context of every request that ended is as it was before dispatch
ContextRestored == \A r \in Requests : mpc[r] = "ended" => ctx[r] = prior[r]

\* C27, as claimed: every record logged while a request is handled carries
\* the incoming X-Request-ID when the request has one, else the generated
\* id; the response carries it too; and after the request the context has
\* the request id it had before.
C27_Original ==
    /\ \A r \in Requests :
          /\ \A i \in 1..Len(records[r]) : records[r][i].request_id = ClaimedId(r)
          /\ (mpc[r] = "ended" /\ resp[r] # "<exception>") => resp[r] = ClaimedId(r)
    /\ ContextRestored

\* C27, amended: every record logged while a request is handled, and that
\* brings no request_id of its own, carries the incoming X-Request-ID when
\* the request has a non-empty one, else the generated id (a record that
\* brings its own keeps it); a response that dispatch returns carries the
\* id of the request; and after the request, ended by a response or by an
\* exception, the context has the request id it had before.
C27_RecordsCarryRequestId ==
    /\ \A r \in Requests :
          LET id == IF Truthy(hdr[r]) THEN hdr[r] ELSE uuid4(r)
          IN  /\ \A i \in 1..Len(records[r]) :
                    records[r][i].request_id =
                       IF Truthy(records[r][i].extra) THEN records[r][i].extra ELSE id
              /\ (mpc[r] = "ended" /\ resp[r] # "<exception>") => resp[r] = id
    /\ ContextRestored

C27_Witness ==
    /\ mpc = [r \in Requests |-> "ended"]
    /\ hdr["r1"] = "abc" /\ hdr["r2"] = NoneStr
    /\ records["r1"] = << [extra |-> NoneStr, request_id |-> "abc"] >>
    /\ records["r2"] = << [extra |-> NoneStr, request_id |-> "uuid-2"] >>
    /\ resp["r1"] = "abc" /\ resp["r2"] = "<exception>"
    /\ prior["r2"] = "outer" /\ ctx["r2"] = "outer"


\* the guarded block of session s raised something that is no IntegrityError
\* and the guard is done with it
UnexpectedHandled(s) ==
    pc[s] = "idle" /\ inblock[s].type \notin {"none", "IntegrityError"}

\* C28: when the guarded block raises an exception that is no
\* IntegrityError, a domain error such as DuplicateError included, the guard
\* attempts a rollback and then raises a plain RepositoryError without
\* error code (status 400) whose cause is the exception of the block.
C28_UnexpectedBecomesGeneric ==
    \A s \in Sessions :
        UnexpectedHandled(s)
        => /\ how[s] \in {"unexpected_rb_ok", "unexpected_rb_failed"}
           /\ last[s].type = "RepositoryError"
           /\ last[s].error_code = NoneStr
           /\ last[s].fields = NoneList
           /\ http_status(last[s]) = 400
           /\ last[s].cause = inblock[s].type
           /\ \E i \in 1..Len(trace[s]) :
                 /\ trace[s][i] \in {"rollback", "rollback_failed"}
                 /\ i < Len(trace[s])
                 /\ trace[s][Len(trace[s])] = "raise"

C28_Witness ==
    \E s \in Sessions :
        /\ UnexpectedHandled(s)
        /\ inblock[s].type = "DuplicateError"
        /\ last[s].type = "RepositoryError"
        /\ last[s].error_code = NoneStr
        /\ how[s] = "unexpected_rb_ok"


\* the rows the session sees are those it saw before the last call
RowsAsBefore ==
    /\ users = ret.before.users
    /\ conversations = ret.before.conversations
    /\ messages = ret.before.messages

C30_InterruptionPassesGuard ==
    [][\A s \in Sessions :
          (pc[s] = "guard" /\ how'[s] = "interrupted")
          => /\ last'[s].type \in Interruptions
             /\ last'[s].type \notin RepositoryErrorTypes
             /\ last'[s] = RawException(last'[s].type)
             /\ \A i \in 1..Len(trace'[s]) :
                   trace'[s][i] \notin {"rollback", "rollback_failed"}
             /\ sess'[s] = sess[s]
             /\ pending[s] \subseteq pending'[s]
             /\ pending'[s] \subseteq pending[s] \cup {cur[s]}
             /\ committed' = committed]_vars

C30_Witness ==
    \E s \in Sessions :
        /\ how[s] = "interrupted"
        /\ pc[s] = "idle"
        /\ last[s].type = "CancelledError"
        /\ Cardinality(pending[s]) = 2

=============================================================================
